---- MODULE Spec2Model ----
(***************************************************************************)
(* Task Management API (src/main.py): the request handlers of the FastAPI  *)
(* application and the record store (the "tasks" table reached through the *)
(* supabase query builder) they call.                                      *)
(*                                                                         *)
(* A handler is an operator from the store and the request's arguments to  *)
(* the set of its possible outcomes (response, store after).  The store's  *)
(* answer to a query that fixes no order, or whose order leaves ties, is   *)
(* any of the orders SQL allows, so a handler may have several outcomes.   *)
(***************************************************************************)
EXTENDS Integers, Sequences, FiniteSets, TLC

VARIABLES
    tasks,   \* the rows of table "tasks": a function from the ids present to rows
    id_seq,  \* the store's serial: the id the next inserted row gets
    now,     \* the store's clock: the created_at the next inserted row gets
    pre,     \* the rows as they were when the last request arrived
    req,     \* the last request: its operation and arguments
    resp,    \* the response to the last request
    prev,    \* the exchange before the last one (its pre, req, resp), when the
             \* client sent the last request right after that response
    walk,    \* a client reading /tasks/paginated page by page over one snapshot
    run      \* a request in progress whose store calls interleave with the
             \* requests of other clients

vars == <<tasks, id_seq, now, pre, req, resp, prev, walk, run>>

-----------------------------------------------------------------------------
(* Bounds of the model *)

\* ids 1..MaxId are requested and assigned; at most MaxId rows are ever inserted
MaxId == 2
\* bulk requests list 0..MaxBulk ids
MaxBulk == 2
\* /tasks/paginated is asked for pages 0..MaxPage
MaxPage == 3
\* with page sizes 0..MaxPageSize (and the two sizes at the limit of 100)
MaxPageSize == 2
\* the larger stores that are only paginated hold 0..MaxRows rows
MaxRows == 23
\* and are read with page sizes 1..MaxLargePageSize
MaxLargePageSize == 10

\* /tasks/batch is sent lists of 0..MaxBatch tasks (and one list over the limit)
MaxBatch == 2
\* /tasks/{task_id}/copy is asked for 0..MaxTimes copies (and the counts at the limit)
MaxTimes == 2
\* limit parameters are 0..MaxLimit (and the values at the limit of 100)
MaxLimit == 2
\* the clock is up to MaxAge days ahead of the newest row; days_old is 0..MaxAge + 1
MaxAge == 1
\* while a request is in progress, up to MaxOthers requests of other clients
\* are handled
MaxOthers == 1
\* the store call that fails is one of the first MaxFail calls of a request
MaxFail == 5
\* the stores whose productivity score is computed hold 0..MaxScoreRows rows
MaxScoreRows == 51
\* the clients sending requests at the same time
MaxClients == 2
\* the stores whose health is checked hold 0..MaxHealthRows rows
MaxHealthRows == 5

(* Program constants *)

\* bulk_delete_tasks / bulk_update_tasks: len(task_ids) > 100 is rejected
BulkLimit == 100
\* get_tasks_paginated: page_size > 100 is rejected
PageSizeLimit == 100
\* create_tasks_batch: len(tasks) > 50 is rejected
BatchLimit == 50
\* copy_task: times > 10 is rejected
TimesLimit == 10
\* get_recent_tasks, get_oldest_tasks, get_tasks_with_longest_titles,
\* get_activity_timeline: limit > 100 is rejected
LimitCeiling == 100
\* auto_complete_old_tasks: days_old > 365 is rejected
DaysOldLimit == 365
\* task_health_check: a title is short below ShortTitle characters and long
\* above LongTitle
ShortTitle == 5
LongTitle == 100

-----------------------------------------------------------------------------
(* Values *)

\* Optional[...]: None is the empty tuple, a value v is <<v>>
None == <<>>
Some(v) == <<v>>
IsNone(o) == o = <<>>
Val(o) == o[1]

\* a title is a sequence of characters
Titles == { <<"a">>, <<"B", "a">> }
\* a description is None or a text, a text being a sequence of characters
Descriptions == { None, Some(<<"d">>) }
ReqIds == 1..MaxId

\* TaskCreate (title: str, description: Optional[str] = None, completed: bool = False)
TaskCreate == [title : Titles, description : Descriptions, completed : BOOLEAN]

\* TaskUpdate (every field Optional, default None)
TaskUpdate ==
    [title : {None, Some(<<"a">>)},
     description : {None, Some(<<"d">>)},
     completed : {None, Some(TRUE), Some(FALSE)}]

\* query parameters: the valid values, a column outside the allow-list ("id"),
\* a name that is no column ("priority"), a direction that is neither asc nor desc
SortBys == {"created_at", "title", "completed", "id", "priority"}
Orders == {"asc", "desc", "DESC"}
Queries == {None, Some(<<>>), Some(<<"b">>), Some(<<"_">>)}
CompletedFilters == {None, Some(TRUE), Some(FALSE)}
Statuses == {"completed", "pending", "COMPLETED", "Pending", "done"}
Pages == 0..MaxPage
PageSizes == 0..MaxPageSize \cup {PageSizeLimit, PageSizeLimit + 1}
BulkIds == UNION { [1..n -> ReqIds] : n \in 0..MaxBulk }

\* a batch: 0..MaxBatch tasks, or one task more than the limit allows
BatchTasks == { [title |-> <<"a">>, description |-> None, completed |-> FALSE],
                [title |-> <<"B", "a">>, description |-> Some(<<"d">>), completed |-> TRUE] }
Batches ==
    UNION { [1..n -> BatchTasks] : n \in 0..MaxBatch }
      \cup { [k \in 1..(BatchLimit + 1) |->
                [title |-> <<"a">>, description |-> None, completed |-> FALSE]] }
Times == 0..MaxTimes \cup {TimesLimit, TimesLimit + 1}
Limits == 0..MaxLimit \cup {LimitCeiling, LimitCeiling + 1}
DaysOld == 0..(MaxAge + 1) \cup {DaysOldLimit, DaysOldLimit + 1}
\* confirm: bool = False, the query parameter given or left out
Confirms == {None, Some(TRUE), Some(FALSE)}
\* the type of column created_at: with a time zone its values read back with
\* a UTC offset, without one they read back naive
TimestampTypes == {"timestamptz", "timestamp"}

Min(a, b) == IF a <= b THEN a ELSE b
Abs(x) == IF x < 0 THEN 0 - x ELSE x

\* str(n) for a natural number: its decimal digits
RECURSIVE Str(_)
Str(n) ==
    LET digit == << "0", "1", "2", "3", "4", "5", "6", "7", "8", "9" >>[(n % 10) + 1]
    IN  IF n < 10 THEN << digit >> ELSE Str(n \div 10) \o << digit >>

\* len(text.split()): the number of runs of characters other than blanks
WordCount(text) ==
    Cardinality({ k \in 1..Len(text) : text[k] # " " /\ (k = 1 \/ text[k - 1] = " ") })

\* text.strip() is empty
Blank(text) == \A k \in 1..Len(text) : text[k] = " "

\* the truth value of an Optional[str]: None and "" are false
Truthy(o) == ~ IsNone(o) /\ Val(o) # <<>>

-----------------------------------------------------------------------------
(* The record store: supabase.table("tasks") *)

Columns == {"id", "title", "description", "completed", "created_at"}

\* .eq("id", task_id): the rows whose id is task_id
EqId(t, task_id) == { t[i] : i \in {j \in DOMAIN t : j = task_id} }

\* .eq("completed", flag)
EqCompleted(t, flag) == { t[i] : i \in {j \in DOMAIN t : t[j].completed = flag} }

\* .select("*") with no filter
AllRows(t) == { t[i] : i \in DOMAIN t }

\* .insert(payload): a column the payload leaves out gets its default, the
\* serial for id and the clock for created_at.  Rows are kept under the serial
\* they were inserted with.
InsertRow(t, seq, clock, payload) ==
    [id |-> IF "id" \in DOMAIN payload THEN payload.id ELSE seq,
     title |-> payload.title, description |-> payload.description,
     completed |-> payload.completed,
     created_at |-> IF "created_at" \in DOMAIN payload THEN payload.created_at ELSE clock]

Insert(t, seq, clock, payload) ==
    [i \in DOMAIN t \cup {seq} |->
        IF i = seq THEN InsertRow(t, seq, clock, payload) ELSE t[i]]

\* .update(changes).eq("id", task_id): changes is a set of <<column, value>>
Changed(row, changes) ==
    [c \in Columns |->
        IF \E ch \in changes : ch[1] = c
        THEN (CHOOSE ch \in changes : ch[1] = c)[2]
        ELSE row[c]]

UpdateEqId(t, task_id, changes) ==
    [i \in DOMAIN t |-> IF i = task_id THEN Changed(t[i], changes) ELSE t[i]]

\* the rows an update .eq("id", task_id) returns: the updated rows
UpdatedEqId(t, task_id, changes) == EqId(UpdateEqId(t, task_id, changes), task_id)

\* .delete().eq("id", task_id)
DeleteEqId(t, task_id) == [i \in DOMAIN t \ {task_id} |-> t[i]]

\* .insert([...]) of a list: one statement, so the rows get consecutive
\* serials and the same timestamp
RECURSIVE InsertAll(_, _, _, _)
InsertAll(t, seq, clock, payloads) ==
    IF payloads = <<>> THEN t
    ELSE InsertAll(Insert(t, seq, clock, Head(payloads)), seq + 1, clock, Tail(payloads))

\* the rows the insert of a list returns, in the order of the list
InsertedRows(t, seq, clock, payloads) ==
    [k \in 1..Len(payloads) |-> InsertRow(t, seq + k - 1, clock, payloads[k])]

\* .update(changes).eq("completed", flag) and the rows it returns
UpdateEqCompleted(t, flag, changes) ==
    [i \in DOMAIN t |-> IF t[i].completed = flag THEN Changed(t[i], changes) ELSE t[i]]

UpdatedEqCompleted(t, flag, changes) ==
    { Changed(r, changes) : r \in EqCompleted(t, flag) }

\* .delete().neq("id", v): the rows whose id is v stay
DeleteNeqId(t, v) == [i \in {j \in DOMAIN t : t[j].id = v} |-> t[i]]

\* .limit(n)
Limit(seq, n) == SubSeq(seq, 1, Min(n, Len(seq)))


\* .ilike("title", pattern): SQL ILIKE.  "%" stands for any run of characters,
\* "_" for any one character, every other character for itself in either case
Lower(c) == IF c = "A" THEN "a" ELSE IF c = "B" THEN "b" ELSE c

RECURSIVE Like(_, _)
Like(p, s) ==
    IF p = <<>> THEN s = <<>>
    ELSE IF Head(p) = "%"
    THEN Like(Tail(p), s) \/ (s # <<>> /\ Like(p, Tail(s)))
    ELSE /\ s # <<>>
         /\ Head(p) = "_" \/ Lower(Head(p)) = Lower(Head(s))
         /\ Like(Tail(p), Tail(s))

ILikeTitle(rows, pattern) == { r \in rows : Like(pattern, r.title) }

\* the order of characters and of texts (byte order, shorter prefix first)
CharRank(c) ==
    IF c = "%" THEN 1 ELSE IF c = "A" THEN 2 ELSE IF c = "B" THEN 3
    ELSE IF c = "_" THEN 4 ELSE IF c = "a" THEN 5 ELSE 6

RECURSIVE TextLeq(_, _)
TextLeq(a, b) ==
    IF a = <<>> THEN TRUE
    ELSE IF b = <<>> THEN FALSE
    ELSE IF Head(a) = Head(b) THEN TextLeq(Tail(a), Tail(b))
    ELSE CharRank(Head(a)) < CharRank(Head(b))

\* x sorts no later than y on column key (ascending); FALSE sorts before TRUE
KeyLeq(key, x, y) ==
    IF key = "title" THEN TextLeq(x.title, y.title)
    ELSE IF key = "completed" THEN (x.completed => y.completed)
    ELSE x[key] <= y[key]

\* .order(key, desc=...): every order of the rows that is sorted on key;
\* rows with equal keys come in any order
RECURSIVE Order(_, _, _)
Order(rows, key, desc) ==
    IF rows = {} THEN { <<>> }
    ELSE UNION { { <<x>> \o rest : rest \in Order(rows \ {x}, key, desc) } :
                 x \in { r \in rows : \A o \in rows :
                            IF desc THEN KeyLeq(key, o, r) ELSE KeyLeq(key, r, o) } }

\* a query without .order(): the rows in any order
RECURSIVE Unordered(_)
Unordered(rows) ==
    IF rows = {} THEN { <<>> }
    ELSE UNION { { <<x>> \o rest : rest \in Unordered(rows \ {x}) } : x \in rows }

\* .range(from, to): rows from (0-based) through to, as far as there are rows
Range(seq, from, to) == SubSeq(seq, from + 1, Min(to + 1, Len(seq)))

\* the columns a query may order by; any other name makes the store call fail
SortableColumns == {"id", "title", "completed", "created_at"}

-----------------------------------------------------------------------------
(* Responses *)

\* a handler's outcome: the HTTP status, the JSON body, the number of store
\* calls the request issued, and the store after it
Outcome(status, body, calls, t, seq) ==
    [status |-> status, body |-> body, calls |-> calls, tasks |-> t, id_seq |-> seq]

\* raise HTTPException(status_code=..., detail=...)
HTTPException(status, detail, calls, t, seq) ==
    Outcome(status, [detail |-> detail], calls, t, seq)

\* a failing store call: except Exception as e -> 500 with the failure text
BackendError == "backend error"

\* f is the number of the store call that fails in this request (0: none fails)
NoFail == 0

-----------------------------------------------------------------------------
(* Handlers *)

\* create_task with the completed flag of the request dropped
create_task_pending(t, seq, clock, task, f) ==
    LET payload == [task EXCEPT !.completed = FALSE]
    IN  { Outcome(201,
                  [message |-> "Task created successfully",
                   task |-> InsertRow(t, seq, clock, payload)],
                  1, Insert(t, seq, clock, payload), seq + 1) }

\* POST /tasks
create_task(t, seq, clock, task, f) ==
    IF f = 1
    THEN { HTTPException(500, <<"Error creating task", BackendError>>, 1, t, seq) }
    ELSE { Outcome(201,
                   [message |-> "Task created successfully",
                    task |-> InsertRow(t, seq, clock, task)],
                   1, Insert(t, seq, clock, task), seq + 1) }

\* GET /tasks/{task_id}
get_task(t, seq, task_id, f) ==
    IF f = 1
    THEN { HTTPException(500, <<"Error getting task", BackendError>>, 1, t, seq) }
    ELSE IF EqId(t, task_id) = {}
    THEN { HTTPException(404, <<"Task with id not found", task_id>>, 1, t, seq) }
    ELSE { Outcome(200, [task |-> r], 1, t, seq) : r \in EqId(t, task_id) }

\* delete_task without the existence check
delete_task_unchecked(t, seq, task_id, f) ==
    { Outcome(200,
              [message |-> "Task deleted successfully", deleted_task_id |-> task_id,
               deleted_task |-> IF task_id \in DOMAIN t THEN t[task_id] ELSE None],
              1, DeleteEqId(t, task_id), seq) }

\* DELETE /tasks/{task_id}
delete_task(t, seq, task_id, f) ==
    IF f = 1
    THEN { HTTPException(500, <<"Error deleting task", BackendError>>, 1, t, seq) }
    ELSE IF EqId(t, task_id) = {}
    THEN { HTTPException(404, <<"Task with id not found", task_id>>, 1, t, seq) }
    ELSE IF f = 2
    THEN { HTTPException(500, <<"Error deleting task", BackendError>>, 2, t, seq) }
    ELSE { Outcome(200,
                   [message |-> "Task deleted successfully",
                    deleted_task_id |-> task_id,
                    deleted_task |-> r],
                   2, DeleteEqId(t, task_id), seq) : r \in EqId(t, task_id) }

\* toggle_task_completion writing True instead of the negated status
toggle_marks_completed(t, seq, task_id, f) ==
    IF EqId(t, task_id) = {}
    THEN { HTTPException(404, <<"Task with id not found", task_id>>, 1, t, seq) }
    ELSE { Outcome(200, [message |-> "Task marked as completed", task |-> r],
                   2, UpdateEqId(t, task_id, { <<"completed", TRUE>> }), seq)
           : r \in UpdatedEqId(t, task_id, { <<"completed", TRUE>> }) }

\* PATCH /tasks/{task_id}/toggle
toggle_task_completion(t, seq, task_id, f) ==
    IF f = 1
    THEN { HTTPException(500, <<"Error toggling task", BackendError>>, 1, t, seq) }
    ELSE IF EqId(t, task_id) = {}
    THEN { HTTPException(404, <<"Task with id not found", task_id>>, 1, t, seq) }
    ELSE IF f = 2
    THEN { HTTPException(500, <<"Error toggling task", BackendError>>, 2, t, seq) }
    ELSE LET new_status == ~ t[task_id].completed
             changes == { <<"completed", new_status>> }
         IN  { Outcome(200,
                       [message |-> IF new_status THEN "Task marked as completed"
                                                  ELSE "Task marked as pending",
                        task |-> r],
                       2, UpdateEqId(t, task_id, changes), seq)
               : r \in UpdatedEqId(t, task_id, changes) }

\* update_task / bulk_update_tasks: the update payload holds only the non-None fields
\* (the description column is nullable, so its value stays an Optional)
update_data(task) ==
    { <<c, IF c = "description" THEN task[c] ELSE Val(task[c])>> :
        c \in {k \in {"title", "description", "completed"} : ~ IsNone(task[k])} }

\* update_task writing the model's defaults for the fields the request leaves out
update_task_overwriting(t, seq, task_id, task, f) ==
    LET changes == update_data(task) \cup
                      (IF IsNone(task.completed) THEN { <<"completed", FALSE>> } ELSE {})
    IN  IF EqId(t, task_id) = {}
        THEN { HTTPException(404, <<"Task with id not found", task_id>>, 1, t, seq) }
        ELSE IF update_data(task) = {}
        THEN { HTTPException(400, "No fields to update", 1, t, seq) }
        ELSE { Outcome(200,
                       [message |-> "Task updated successfully", task |-> r],
                       2, UpdateEqId(t, task_id, changes), seq)
               : r \in UpdatedEqId(t, task_id, changes) }

\* PUT /tasks/{task_id}
update_task(t, seq, task_id, task, f) ==
    IF f = 1
    THEN { HTTPException(500, <<"Error updating task", BackendError>>, 1, t, seq) }
    ELSE IF EqId(t, task_id) = {}
    THEN { HTTPException(404, <<"Task with id not found", task_id>>, 1, t, seq) }
    ELSE IF update_data(task) = {}
    THEN { HTTPException(400, "No fields to update", 1, t, seq) }
    ELSE IF f = 2
    THEN { HTTPException(500, <<"Error updating task", BackendError>>, 2, t, seq) }
    ELSE { Outcome(200,
                   [message |-> "Task updated successfully", task |-> r],
                   2, UpdateEqId(t, task_id, update_data(task)), seq)
           : r \in UpdatedEqId(t, task_id, update_data(task)) }


\* GET /tasks
valid_sorts == {"created_at", "title", "completed"}

get_all_tasks(t, seq, sort_by, order, f) ==
    IF sort_by \notin valid_sorts
    THEN { HTTPException(400, "sort_by must be one of: valid_sorts", 0, t, seq) }
    ELSE IF order \notin {"asc", "desc"}
    THEN { HTTPException(400, "order must be 'asc' or 'desc'", 0, t, seq) }
    ELSE IF f = 1 \/ sort_by \notin SortableColumns
    THEN { HTTPException(500, <<"Error loading tasks", BackendError>>, 1, t, seq) }
    ELSE { Outcome(200,
                   [tasks |-> data, count |-> Len(data),
                    sorted_by |-> sort_by, order |-> order],
                   1, t, seq)
           : data \in Order(AllRows(t), sort_by, order = "desc") }

\* filter_tasks with the pending branch missing its .eq("completed", False)
filter_tasks_pending_unfiltered(t, seq, status, f) ==
    IF status \notin {"completed", "pending", "COMPLETED", "Pending"}
    THEN { HTTPException(400, "Status must be 'completed' or 'pending'", 0, t, seq) }
    ELSE { Outcome(200, [tasks |-> data, count |-> Len(data)], 1, t, seq)
           : data \in Unordered(IF status \in {"completed", "COMPLETED"}
                                 THEN EqCompleted(t, TRUE) ELSE AllRows(t)) }

\* GET /tasks/filter/{status}
StatusLower(status) ==
    IF status = "COMPLETED" THEN "completed"
    ELSE IF status = "Pending" THEN "pending"
    ELSE status

filter_tasks(t, seq, status, f) ==
    IF StatusLower(status) \notin {"completed", "pending"}
    THEN { HTTPException(400, "Status must be 'completed' or 'pending'", 0, t, seq) }
    ELSE IF f = 1
    THEN { HTTPException(500, <<"Error filtering tasks", BackendError>>, 1, t, seq) }
    ELSE { Outcome(200, [tasks |-> data, count |-> Len(data)], 1, t, seq)
           : data \in Unordered(EqCompleted(t, StatusLower(status) = "completed")) }

\* GET /tasks/advanced-search
\* "if query:" skips None and the empty text; "if completed is not None:"
Filtered(t, query, completed) ==
    LET byTitle == IF IsNone(query) \/ Val(query) = <<>>
                   THEN AllRows(t)
                   ELSE ILikeTitle(AllRows(t), <<"%">> \o Val(query) \o <<"%">>)
    IN  IF IsNone(completed) THEN byTitle
        ELSE { r \in byTitle : r.completed = Val(completed) }

\* advanced_search with the direction test inverted: desc=(order == "asc")
advanced_search_inverted(t, seq, query, completed, sort_by, order, f) ==
    IF sort_by \notin SortableColumns
    THEN { HTTPException(500, <<"Error in advanced search", BackendError>>, 1, t, seq) }
    ELSE { Outcome(200,
                   [tasks |-> data, count |-> Len(data),
                    filters |-> [query |-> query, completed |-> completed,
                                 sort_by |-> sort_by, order |-> order]],
                   1, t, seq)
           : data \in Order(Filtered(t, query, completed), sort_by, order = "asc") }

advanced_search(t, seq, query, completed, sort_by, order, f) ==
    IF f = 1 \/ sort_by \notin SortableColumns
    THEN { HTTPException(500, <<"Error in advanced search", BackendError>>, 1, t, seq) }
    ELSE { Outcome(200,
                   [tasks |-> data, count |-> Len(data),
                    filters |-> [query |-> query, completed |-> completed,
                                 sort_by |-> sort_by, order |-> order]],
                   1, t, seq)
           : data \in Order(Filtered(t, query, completed), sort_by, order = "desc") }

\* pagination with floor division for total_pages
pagination_floor(page, page_size, total_count) ==
    LET total_pages == total_count \div page_size
    IN  [current_page |-> page,
         page_size |-> page_size,
         total_items |-> total_count,
         total_pages |-> total_pages,
         has_next |-> page < total_pages,
         has_previous |-> page > 1]

\* GET /tasks/paginated
pagination(page, page_size, total_count) ==
    LET total_pages == (total_count + page_size - 1) \div page_size
    IN  [current_page |-> page,
         page_size |-> page_size,
         total_items |-> total_count,
         total_pages |-> total_pages,
         has_next |-> page < total_pages,
         has_previous |-> page > 1]

get_tasks_paginated(t, seq, page, page_size, sort_by, order, f) ==
    IF page < 1
    THEN { HTTPException(400, "page must be >= 1", 0, t, seq) }
    ELSE IF page_size < 1 \/ page_size > PageSizeLimit
    THEN { HTTPException(400, "page_size must be between 1 and 100", 0, t, seq) }
    ELSE IF f = 1
    THEN { HTTPException(500, <<"Error getting paginated tasks", BackendError>>, 1, t, seq) }
    ELSE IF f = 2 \/ sort_by \notin SortableColumns
    THEN { HTTPException(500, <<"Error getting paginated tasks", BackendError>>, 2, t, seq) }
    ELSE LET offset == (page - 1) * page_size
             total_count == Cardinality(AllRows(t))
         IN  { Outcome(200,
                       [tasks |-> Range(data, offset, offset + page_size - 1),
                        pagination |-> pagination(page, page_size, total_count)],
                       2, t, seq)
               : data \in Order(AllRows(t), sort_by, order = "desc") }

\* DELETE /tasks/bulk-delete: the loop over task_ids, one select and (for an
\* id that is present) one delete per id
RECURSIVE bulk_delete_loop(_, _, _, _, _, _)
bulk_delete_loop(t, task_ids, deleted_tasks, not_found, calls, f) ==
    IF task_ids = <<>>
    THEN [failed |-> FALSE, tasks |-> t, done |-> deleted_tasks,
          not_found |-> not_found, calls |-> calls]
    ELSE IF calls + 1 = f
    THEN [failed |-> TRUE, tasks |-> t, done |-> deleted_tasks,
          not_found |-> not_found, calls |-> calls + 1]
    ELSE IF EqId(t, Head(task_ids)) # {}
    THEN IF calls + 2 = f
         THEN [failed |-> TRUE, tasks |-> t, done |-> deleted_tasks,
               not_found |-> not_found, calls |-> calls + 2]
         ELSE bulk_delete_loop(DeleteEqId(t, Head(task_ids)), Tail(task_ids),
                               Append(deleted_tasks, Head(task_ids)), not_found,
                               calls + 2, f)
    ELSE bulk_delete_loop(t, Tail(task_ids), deleted_tasks,
                          Append(not_found, Head(task_ids)), calls + 1, f)

\* bulk_delete_tasks giving up with 404 at the first id that is missing
bulk_delete_aborting(t, seq, task_ids, f) ==
    IF task_ids = <<>>
    THEN { HTTPException(400, "task_ids list cannot be empty", 0, t, seq) }
    ELSE LET r == bulk_delete_loop(t, task_ids, <<>>, <<>>, 0, f)
         IN  IF r.not_found # <<>>
             THEN { HTTPException(404, <<"Task with id not found", Head(r.not_found)>>,
                                  r.calls, t, seq) }
             ELSE { Outcome(200,
                            [message |-> <<"Deleted task(s)", Len(r.done)>>,
                             deleted_count |-> Len(r.done),
                             deleted_ids |-> r.done,
                             not_found_ids |-> r.not_found,
                             not_found_count |-> Len(r.not_found)],
                            r.calls, r.tasks, seq) }

bulk_delete_tasks(t, seq, task_ids, f) ==
    IF task_ids = <<>>
    THEN { HTTPException(400, "task_ids list cannot be empty", 0, t, seq) }
    ELSE IF Len(task_ids) > BulkLimit
    THEN { HTTPException(400, "Cannot delete more than 100 tasks at once", 0, t, seq) }
    ELSE LET r == bulk_delete_loop(t, task_ids, <<>>, <<>>, 0, f)
         IN  IF r.failed
             THEN { HTTPException(500, <<"Error bulk deleting tasks", BackendError>>,
                                  r.calls, r.tasks, seq) }
             ELSE { Outcome(200,
                            [message |-> <<"Deleted task(s)", Len(r.done)>>,
                             deleted_count |-> Len(r.done),
                             deleted_ids |-> r.done,
                             not_found_ids |-> r.not_found,
                             not_found_count |-> Len(r.not_found)],
                            r.calls, r.tasks, seq) }

\* PATCH /tasks/bulk-update: the loop over task_ids, one select and (for an id
\* that is present) one update per id; updated_tasks.extend(response.data)
RECURSIVE bulk_update_loop(_, _, _, _, _, _, _)
bulk_update_loop(t, task_ids, updates, updated_tasks, not_found, calls, f) ==
    IF task_ids = <<>>
    THEN [failed |-> FALSE, tasks |-> t, done |-> updated_tasks,
          not_found |-> not_found, calls |-> calls]
    ELSE IF calls + 1 = f
    THEN [failed |-> TRUE, tasks |-> t, done |-> updated_tasks,
          not_found |-> not_found, calls |-> calls + 1]
    ELSE IF EqId(t, Head(task_ids)) # {}
    THEN IF calls + 2 = f
         THEN [failed |-> TRUE, tasks |-> t, done |-> updated_tasks,
               not_found |-> not_found, calls |-> calls + 2]
         ELSE bulk_update_loop(UpdateEqId(t, Head(task_ids), updates), Tail(task_ids),
                               updates,
                               updated_tasks \o
                                 (CHOOSE data \in
                                    Unordered(UpdatedEqId(t, Head(task_ids), updates)) : TRUE),
                               not_found, calls + 2, f)
    ELSE bulk_update_loop(t, Tail(task_ids), updates, updated_tasks,
                          Append(not_found, Head(task_ids)), calls + 1, f)

bulk_update_tasks(t, seq, task_ids, task, f) ==
    IF task_ids = <<>>
    THEN { HTTPException(400, "task_ids list cannot be empty", 0, t, seq) }
    ELSE IF Len(task_ids) > BulkLimit
    THEN { HTTPException(400, "Cannot update more than 100 tasks at once", 0, t, seq) }
    ELSE IF update_data(task) = {}
    THEN { HTTPException(400, "No fields to update", 0, t, seq) }
    ELSE LET r == bulk_update_loop(t, task_ids, update_data(task), <<>>, <<>>, 0, f)
         IN  IF r.failed
             THEN { HTTPException(500, <<"Error bulk updating tasks", BackendError>>,
                                  r.calls, r.tasks, seq) }
             ELSE { Outcome(200,
                            [message |-> <<"Updated task(s)", Len(r.done)>>,
                             updated_count |-> Len(r.done),
                             updated_tasks |-> r.done,
                             not_found_ids |-> r.not_found,
                             not_found_count |-> Len(r.not_found)],
                            r.calls, r.tasks, seq) }

\* create_tasks_batch without the test for an empty list
create_tasks_batch_unchecked(t, seq, clock, task_list, f) ==
    IF Len(task_list) > BatchLimit
    THEN { HTTPException(400, "Cannot create more than 50 tasks at once", 0, t, seq) }
    ELSE { Outcome(201,
                   [message |-> <<"Successfully created tasks", Len(task_list)>>,
                    created_count |-> Len(task_list),
                    tasks |-> InsertedRows(t, seq, clock, task_list)],
                   1, InsertAll(t, seq, clock, task_list), seq + Len(task_list)) }

\* POST /tasks/batch
create_tasks_batch(t, seq, clock, task_list, f) ==
    IF task_list = <<>>
    THEN { HTTPException(400, "Task list cannot be empty", 0, t, seq) }
    ELSE IF Len(task_list) > BatchLimit
    THEN { HTTPException(400, "Cannot create more than 50 tasks at once", 0, t, seq) }
    ELSE IF f = 1
    THEN { HTTPException(500, <<"Error creating batch tasks", BackendError>>, 1, t, seq) }
    ELSE LET tasks_data == [k \in 1..Len(task_list) |->
                              [title |-> task_list[k].title,
                               description |-> task_list[k].description,
                               completed |-> task_list[k].completed]]
             data == InsertedRows(t, seq, clock, tasks_data)
         IN  { Outcome(201,
                       [message |-> <<"Successfully created tasks", Len(data)>>,
                        created_count |-> Len(data),
                        tasks |-> data],
                       1, InsertAll(t, seq, clock, tasks_data), seq + Len(tasks_data)) }

\* copy_task with every copy carrying the original's created_at
copy_task_keeping_created_at(t, seq, clock, task_id, times, f) ==
    IF times < 1 \/ times > TimesLimit
    THEN { HTTPException(400, "times must be between 1 and 10", 0, t, seq) }
    ELSE IF EqId(t, task_id) = {}
    THEN { HTTPException(404, <<"Task with id not found", task_id>>, 1, t, seq) }
    ELSE { LET copies == [i \in 1..times |->
                            [title |-> task.title \o <<" ", "(", "C", "o", "p", "y", ")">>,
                             description |-> task.description,
                             completed |-> FALSE,
                             created_at |-> task.created_at]]
           IN  Outcome(201,
                       [message |-> <<"Created copies of task", times, task_id>>,
                        original_task |-> task,
                        created_copies |-> InsertedRows(t, seq, clock, copies),
                        copies_count |-> times],
                       2, InsertAll(t, seq, clock, copies), seq + times)
           : task \in EqId(t, task_id) }

\* POST /tasks/{task_id}/copy
copy_task(t, seq, clock, task_id, times, f) ==
    IF times < 1 \/ times > TimesLimit
    THEN { HTTPException(400, "times must be between 1 and 10", 0, t, seq) }
    ELSE IF f = 1
    THEN { HTTPException(500, <<"Error copying task", BackendError>>, 1, t, seq) }
    ELSE IF EqId(t, task_id) = {}
    THEN { HTTPException(404, <<"Task with id not found", task_id>>, 1, t, seq) }
    ELSE IF f = 2
    THEN { HTTPException(500, <<"Error copying task", BackendError>>, 2, t, seq) }
    ELSE { LET copies == [i \in 1..times |->
                            [title |-> IF times > 1
                                       THEN task.title \o <<" ", "(", "C", "o", "p", "y", " ">>
                                                       \o Str(i) \o <<")">>
                                       ELSE task.title \o <<" ", "(", "C", "o", "p", "y", ")">>,
                             description |-> task.description,
                             completed |-> FALSE]]
           IN  Outcome(201,
                       [message |-> <<"Created copies of task", times, task_id>>,
                        original_task |-> task,
                        created_copies |-> InsertedRows(t, seq, clock, copies),
                        copies_count |-> times],
                       2, InsertAll(t, seq, clock, copies), seq + times)
           : task \in EqId(t, task_id) }

\* task.get('description', '') is None for a row whose description is null,
\* and None has no attribute 'split'
AttributeError == "'NoneType' object has no attribute 'split'"

\* compare_tasks naming task_id_1 in both of its not-found responses
compare_tasks_first_only(t, seq, task_id_1, task_id_2, f) ==
    IF EqId(t, task_id_1) = {} \/ EqId(t, task_id_2) = {}
    THEN { HTTPException(404, <<"Task not found", task_id_1>>, 2, t, seq) }
    ELSE { Outcome(200, [task_1 |-> task1, task_2 |-> task2], 2, t, seq)
           : task1 \in EqId(t, task_id_1), task2 \in EqId(t, task_id_2) }

\* GET /tasks/compare/{task_id_1}/{task_id_2}
compare_tasks(t, seq, task_id_1, task_id_2, f) ==
    IF f = 1
    THEN { HTTPException(500, <<"Error comparing tasks", BackendError>>, 1, t, seq) }
    ELSE IF f = 2
    THEN { HTTPException(500, <<"Error comparing tasks", BackendError>>, 2, t, seq) }
    ELSE IF EqId(t, task_id_1) = {}
    THEN { HTTPException(404, <<"Task not found", task_id_1>>, 2, t, seq) }
    ELSE IF EqId(t, task_id_2) = {}
    THEN { HTTPException(404, <<"Task not found", task_id_2>>, 2, t, seq) }
    ELSE { IF IsNone(task1.description) \/ IsNone(task2.description)
           THEN HTTPException(500, <<"Error comparing tasks", AttributeError>>, 2, t, seq)
           ELSE Outcome(200,
                        [task_1 |-> task1,
                         task_2 |-> task2,
                         comparison |->
                           [same_status |-> task1.completed = task2.completed,
                            title_length_diff |-> Abs(Len(task1.title) - Len(task2.title)),
                            both_have_description |->
                               Truthy(task1.description) /\ Truthy(task2.description),
                            word_count_diff |->
                               Abs(WordCount(task1.title) + WordCount(Val(task1.description))
                                   - WordCount(task2.title)
                                   - WordCount(Val(task2.description)))]],
                        2, t, seq)
           : task1 \in EqId(t, task_id_1), task2 \in EqId(t, task_id_2) }

\* POST /tasks/merge
merged_desc(task1, task2) ==
    IF Truthy(task1.description) /\ Truthy(task2.description)
    THEN Val(task1.description) \o <<" ", "|", " ">> \o Val(task2.description)
    ELSE IF Truthy(task1.description) THEN Val(task1.description)
    ELSE IF Truthy(task2.description) THEN Val(task2.description)
    ELSE <<>>

new_task(task1, task2) ==
    [title |-> task1.title \o <<" ", "+", " ">> \o task2.title,
     description |-> IF merged_desc(task1, task2) # <<>>
                     THEN Some(merged_desc(task1, task2)) ELSE None,
     completed |-> task1.completed /\ task2.completed]

\* merge_tasks taking the merged task back when a delete of an original fails
merge_tasks_compensating(t, seq, clock, task_id_1, task_id_2, delete_originals, f) ==
    IF f = 1 \/ f = 2 \/ f = 3
    THEN { HTTPException(500, <<"Error merging tasks", BackendError>>, f, t, seq) }
    ELSE IF EqId(t, task_id_1) = {}
    THEN { HTTPException(404, <<"Task not found", task_id_1>>, 2, t, seq) }
    ELSE IF EqId(t, task_id_2) = {}
    THEN { HTTPException(404, <<"Task not found", task_id_2>>, 2, t, seq) }
    ELSE IF delete_originals /\ (f = 4 \/ f = 5)
    THEN { HTTPException(500, <<"Error merging tasks", BackendError>>, f + 1, t, seq + 1) }
    ELSE { Outcome(201,
                   [message |-> "Tasks merged successfully",
                    merged_task |-> InsertRow(t, seq, clock, new_task(task1, task2)),
                    original_tasks_deleted |-> delete_originals,
                    source_task_ids |-> <<task_id_1, task_id_2>>],
                   IF delete_originals THEN 5 ELSE 3,
                   IF delete_originals
                   THEN DeleteEqId(DeleteEqId(Insert(t, seq, clock, new_task(task1, task2)),
                                              task_id_1), task_id_2)
                   ELSE Insert(t, seq, clock, new_task(task1, task2)),
                   seq + 1)
           : task1 \in EqId(t, task_id_1), task2 \in EqId(t, task_id_2) }

merge_tasks(t, seq, clock, task_id_1, task_id_2, delete_originals, f) ==
    IF f = 1
    THEN { HTTPException(500, <<"Error merging tasks", BackendError>>, 1, t, seq) }
    ELSE IF f = 2
    THEN { HTTPException(500, <<"Error merging tasks", BackendError>>, 2, t, seq) }
    ELSE IF EqId(t, task_id_1) = {}
    THEN { HTTPException(404, <<"Task not found", task_id_1>>, 2, t, seq) }
    ELSE IF EqId(t, task_id_2) = {}
    THEN { HTTPException(404, <<"Task not found", task_id_2>>, 2, t, seq) }
    ELSE IF f = 3
    THEN { HTTPException(500, <<"Error merging tasks", BackendError>>, 3, t, seq) }
    ELSE { LET created == Insert(t, seq, clock, new_task(task1, task2))
               body == [message |-> "Tasks merged successfully",
                        merged_task |-> InsertRow(t, seq, clock, new_task(task1, task2)),
                        original_tasks_deleted |-> delete_originals,
                        source_task_ids |-> <<task_id_1, task_id_2>>]
           IN  IF ~ delete_originals
               THEN Outcome(201, body, 3, created, seq + 1)
               ELSE IF f = 4
               THEN HTTPException(500, <<"Error merging tasks", BackendError>>,
                                  4, created, seq + 1)
               ELSE IF f = 5
               THEN HTTPException(500, <<"Error merging tasks", BackendError>>,
                                  5, DeleteEqId(created, task_id_1), seq + 1)
               ELSE Outcome(201, body, 5,
                            DeleteEqId(DeleteEqId(created, task_id_1), task_id_2), seq + 1)
           : task1 \in EqId(t, task_id_1), task2 \in EqId(t, task_id_2) }

\* PATCH /tasks/bulk/mark-completed
mark_all_completed(t, seq, f) ==
    IF f = 1
    THEN { HTTPException(500, <<"Error marking tasks as completed", BackendError>>, 1, t, seq) }
    ELSE { Outcome(200,
                   [message |-> "All pending tasks marked as completed",
                    updated_count |-> Len(data),
                    tasks |-> data],
                   1, UpdateEqCompleted(t, FALSE, { <<"completed", TRUE>> }), seq)
           : data \in Unordered(UpdatedEqCompleted(t, FALSE, { <<"completed", TRUE>> })) }

\* PATCH /tasks/bulk/mark-pending
mark_all_pending(t, seq, f) ==
    IF f = 1
    THEN { HTTPException(500, <<"Error marking tasks as pending", BackendError>>, 1, t, seq) }
    ELSE { Outcome(200,
                   [message |-> "All completed tasks marked as pending",
                    updated_count |-> Len(data),
                    tasks |-> data],
                   1, UpdateEqCompleted(t, TRUE, { <<"completed", FALSE>> }), seq)
           : data \in Unordered(UpdatedEqCompleted(t, TRUE, { <<"completed", FALSE>> })) }

\* delete_all_tasks without the test of confirm
delete_all_tasks_unconfirmed(t, seq, confirm, f) ==
    IF AllRows(t) = {}
    THEN { Outcome(200, [message |-> "No tasks to delete", deleted_count |-> 0], 1, t, seq) }
    ELSE { Outcome(200,
                   [message |-> "All tasks deleted successfully",
                    deleted_count |-> Cardinality(AllRows(t))],
                   2, DeleteNeqId(t, 0), seq) }

\* DELETE /tasks/delete-all (confirm: bool = False)
delete_all_tasks(t, seq, confirm, f) ==
    IF ~ (IF IsNone(confirm) THEN FALSE ELSE Val(confirm))
    THEN { HTTPException(400, "Please confirm deletion by adding ?confirm=true to the URL",
                         0, t, seq) }
    ELSE IF f = 1
    THEN { HTTPException(500, <<"Error deleting all tasks", BackendError>>, 1, t, seq) }
    ELSE LET count == Cardinality(AllRows(t))
         IN  IF count = 0
             THEN { Outcome(200, [message |-> "No tasks to delete", deleted_count |-> 0],
                            1, t, seq) }
             ELSE IF f = 2
             THEN { HTTPException(500, <<"Error deleting all tasks", BackendError>>, 2, t, seq) }
             ELSE { Outcome(200,
                            [message |-> "All tasks deleted successfully",
                             deleted_count |-> count],
                            2, DeleteNeqId(t, 0), seq) }

\* PATCH /tasks/reverse-all: the loop over all_tasks.data, one update per row read
RECURSIVE reverse_all_loop(_, _, _, _, _)
reverse_all_loop(t, data, reversed_count, calls, f) ==
    IF data = <<>>
    THEN [failed |-> FALSE, tasks |-> t, count |-> reversed_count, calls |-> calls]
    ELSE IF calls + 1 = f
    THEN [failed |-> TRUE, tasks |-> t, count |-> reversed_count, calls |-> calls + 1]
    ELSE reverse_all_loop(UpdateEqId(t, Head(data).id,
                                     { <<"completed", ~ Head(data).completed>> }),
                          Tail(data), reversed_count + 1, calls + 1, f)

\* reverse_all_task_status leaving the first row read as it is
reverse_all_task_status_skipping(t, seq, f) ==
    IF AllRows(t) = {}
    THEN { Outcome(200, [message |-> "No tasks to reverse", reversed_count |-> 0], 1, t, seq) }
    ELSE { LET r == reverse_all_loop(t, Tail(data), 1, 1, f)
           IN  Outcome(200,
                       [message |-> <<"Reversed status of task(s)", r.count>>,
                        reversed_count |-> r.count,
                        warning |-> "All completed tasks are now pending, and vice versa!"],
                       r.calls, r.tasks, seq)
           : data \in Unordered(AllRows(t)) }

\* PATCH /tasks/reverse-all
reverse_all_task_status(t, seq, f) ==
    IF f = 1
    THEN { HTTPException(500, <<"Error reversing task statuses", BackendError>>, 1, t, seq) }
    ELSE IF AllRows(t) = {}
    THEN { Outcome(200, [message |-> "No tasks to reverse", reversed_count |-> 0], 1, t, seq) }
    ELSE { LET r == reverse_all_loop(t, data, 0, 1, f)
           IN  IF r.failed
               THEN HTTPException(500, <<"Error reversing task statuses", BackendError>>,
                                  r.calls, r.tasks, seq)
               ELSE Outcome(200,
                            [message |-> <<"Reversed status of task(s)", r.count>>,
                             reversed_count |-> r.count,
                             warning |-> "All completed tasks are now pending, and vice versa!"],
                            r.calls, r.tasks, seq)
           : data \in Unordered(AllRows(t)) }

\* POST /tasks/auto-complete-old: the loop over old_tasks, one update per row
RECURSIVE auto_complete_loop(_, _, _, _, _)
auto_complete_loop(t, old_tasks, updated_count, calls, f) ==
    IF old_tasks = <<>>
    THEN [failed |-> FALSE, tasks |-> t, count |-> updated_count, calls |-> calls]
    ELSE IF calls + 1 = f
    THEN [failed |-> TRUE, tasks |-> t, count |-> updated_count, calls |-> calls + 1]
    ELSE auto_complete_loop(UpdateEqId(t, Head(old_tasks).id, { <<"completed", TRUE>> }),
                            Tail(old_tasks), updated_count + 1, calls + 1, f)

\* task_date < cutoff_date: cutoff_date comes from datetime.utcnow() and is
\* naive; a task_date parsed from a text with a UTC offset is aware
TypeError == "can't compare offset-naive and offset-aware datetimes"

\* the rows of all_tasks.data created before the cutoff
OldTasks(rows, cutoff_date) == { r \in rows : r.created_at < cutoff_date }

\* auto_complete_old_tasks without the test of days_old
auto_complete_old_tasks_unchecked(t, seq, clock, created_at_type, days_old, f) ==
    { LET r == auto_complete_loop(t, old_tasks, 0, 1, f)
      IN  Outcome(200,
                  [message |-> <<"Auto-completed old task(s)", r.count>>,
                   updated_count |-> r.count,
                   cutoff_date |-> clock - days_old,
                   days_old |-> days_old,
                   updated_tasks |-> old_tasks],
                  r.calls, r.tasks, seq)
      : old_tasks \in Unordered(OldTasks(EqCompleted(t, FALSE), clock - days_old)) }

\* POST /tasks/auto-complete-old; the clock counts days
auto_complete_old_tasks(t, seq, clock, created_at_type, days_old, f) ==
    IF days_old < 1 \/ days_old > DaysOldLimit
    THEN { HTTPException(400, "days_old must be between 1 and 365", 0, t, seq) }
    ELSE IF f = 1
    THEN { HTTPException(500, <<"Error auto-completing old tasks", BackendError>>, 1, t, seq) }
    ELSE IF created_at_type = "timestamptz" /\ EqCompleted(t, FALSE) # {}
    THEN { HTTPException(500, <<"Error auto-completing old tasks", TypeError>>, 1, t, seq) }
    ELSE { LET r == auto_complete_loop(t, old_tasks, 0, 1, f)
           IN  IF r.failed
               THEN HTTPException(500, <<"Error auto-completing old tasks", BackendError>>,
                                  r.calls, r.tasks, seq)
               ELSE Outcome(200,
                            [message |-> <<"Auto-completed old task(s)", r.count>>,
                             updated_count |-> r.count,
                             cutoff_date |-> clock - days_old,
                             days_old |-> days_old,
                             updated_tasks |-> old_tasks],
                            r.calls, r.tasks, seq)
           : old_tasks \in Unordered(OldTasks(EqCompleted(t, FALSE), clock - days_old)) }

\* GET /tasks/recent
get_recent_tasks(t, seq, limit, f) ==
    IF limit < 1 \/ limit > LimitCeiling
    THEN { HTTPException(400, "limit must be between 1 and 100", 0, t, seq) }
    ELSE IF f = 1
    THEN { HTTPException(500, <<"Error getting recent tasks", BackendError>>, 1, t, seq) }
    ELSE { Outcome(200,
                   [tasks |-> Limit(data, limit), count |-> Len(Limit(data, limit)),
                    limit |-> limit],
                   1, t, seq)
           : data \in Order(AllRows(t), "created_at", TRUE) }

\* GET /tasks/oldest
get_oldest_tasks(t, seq, limit, f) ==
    IF limit < 1 \/ limit > LimitCeiling
    THEN { HTTPException(400, "limit must be between 1 and 100", 0, t, seq) }
    ELSE IF f = 1
    THEN { HTTPException(500, <<"Error getting oldest tasks", BackendError>>, 1, t, seq) }
    ELSE { Outcome(200,
                   [tasks |-> Limit(data, limit), count |-> Len(Limit(data, limit)),
                    limit |-> limit],
                   1, t, seq)
           : data \in Order(AllRows(t), "created_at", FALSE) }

\* GET /tasks/longest-titles: sorted(..., key=len(title), reverse=True) is
\* stable, so rows with titles of one length keep the order the store gave
\* them, which is any order
sorted_tasks(rows) ==
    { s \in Unordered(rows) :
        \A j, k \in 1..Len(s) : j < k => Len(s[j].title) >= Len(s[k].title) }

WithTitleLength(r) ==
    [id |-> r.id, title |-> r.title, description |-> r.description,
     completed |-> r.completed, created_at |-> r.created_at,
     title_length |-> Len(r.title)]

get_tasks_with_longest_titles(t, seq, limit, f) ==
    IF limit < 1 \/ limit > LimitCeiling
    THEN { HTTPException(400, "limit must be between 1 and 100", 0, t, seq) }
    ELSE IF f = 1
    THEN { HTTPException(500, <<"Error getting tasks with longest titles", BackendError>>,
                         1, t, seq) }
    ELSE IF AllRows(t) = {}
    THEN { Outcome(200, [tasks |-> <<>>, count |-> 0], 1, t, seq) }
    ELSE { LET result == Limit(s, limit)
           IN  Outcome(200,
                       [tasks |-> [k \in 1..Len(result) |-> WithTitleLength(result[k])],
                        count |-> Len(result),
                        limit |-> limit],
                       1, t, seq)
           : s \in sorted_tasks(AllRows(t)) }

\* GET /tasks/activity-timeline
get_activity_timeline(t, seq, limit, f) ==
    IF limit < 1 \/ limit > LimitCeiling
    THEN { HTTPException(400, "limit must be between 1 and 100", 0, t, seq) }
    ELSE IF f = 1
    THEN { HTTPException(500, <<"Error getting activity timeline", BackendError>>, 1, t, seq) }
    ELSE { LET all_tasks == Limit(data, limit)
               timeline == [k \in 1..Len(all_tasks) |->
                              [timestamp |-> all_tasks[k].created_at,
                               action |-> "created",
                               task_id |-> all_tasks[k].id,
                               task_title |-> all_tasks[k].title,
                               status |-> IF all_tasks[k].completed
                                          THEN "completed" ELSE "pending"]]
           IN  Outcome(200,
                       [timeline |-> timeline, count |-> Len(timeline), limit |-> limit],
                       1, t, seq)
           : data \in Order(AllRows(t), "created_at", TRUE) }

\* round(x, 1) for x = num / den, in tenths: the tenth nearest to x.  Where x
\* lies halfway between two tenths the result follows the binary float that
\* stands for x, which may lie on either side: either tenth
Round1(num, den) ==
    LET q == (10 * num) \div den
        r == (10 * num) % den
    IN  IF 2 * r < den THEN {q} ELSE IF 2 * r > den THEN {q + 1} ELSE {q, q + 1}

\* the if-chain on total_score = num / den that sets grade
grade(num, den) ==
    IF num >= 90 * den THEN "A+"
    ELSE IF num >= 80 * den THEN "A"
    ELSE IF num >= 70 * den THEN "B"
    ELSE IF num >= 60 * den THEN "C"
    ELSE IF num >= 50 * den THEN "D"
    ELSE "F"

\* _get_score_message(score) for score = num / den
get_score_message(num, den) ==
    IF num >= 90 * den THEN "Outstanding! You're a productivity superstar!"
    ELSE IF num >= 80 * den THEN "Excellent work! Keep it up!"
    ELSE IF num >= 70 * den THEN "Great job! You're doing well!"
    ELSE IF num >= 60 * den THEN "Good effort! Room for improvement!"
    ELSE IF num >= 50 * den THEN "Not bad! Keep working at it!"
    ELSE "Let's boost that score! You can do it!"

\* calculate_productivity_score with the weights of completion and description swapped
calculate_productivity_score_swapped(t, seq, f) ==
    IF AllRows(t) = {}
    THEN { Outcome(200, [score |-> 0, grade |-> "N/A",
                         message |-> "Create some tasks to see your productivity score!"],
                   1, t, seq) }
    ELSE LET total == Cardinality(AllRows(t))
             completed == Cardinality({ r \in AllRows(t) : r.completed })
             with_description ==
                 Cardinality({ r \in AllRows(t) :
                                 Truthy(r.description) /\ ~ Blank(Val(r.description)) })
             total_score == 50 * (completed * 30) + 50 * (with_description * 40)
                              + total * Min(total * 30, 30 * 50)
         IN  { Outcome(200,
                       [score |-> score,
                        grade |-> grade(total_score, 50 * total),
                        breakdown |-> [completion |-> completion,
                                       description_quality |-> description_quality,
                                       task_volume |-> task_volume],
                        stats |-> [total_tasks |-> total,
                                   completed_tasks |-> completed,
                                   tasks_with_descriptions |-> with_description],
                        message |-> get_score_message(total_score, 50 * total)],
                       1, t, seq)
               : score \in Round1(total_score, 50 * total),
                 completion \in Round1(completed * 30, total),
                 description_quality \in Round1(with_description * 40, total),
                 task_volume \in Round1(Min(total * 30, 30 * 50), 50) }

\* GET /tasks/productivity-score.  The scores are fractions: completion_score
\* and description_score over total, volume_score over 50, total_score over
\* 50 * total; the rounded numbers of the response are in tenths
calculate_productivity_score(t, seq, f) ==
    IF f = 1
    THEN { HTTPException(500, <<"Error calculating productivity score", BackendError>>,
                         1, t, seq) }
    ELSE IF AllRows(t) = {}
    THEN { Outcome(200, [score |-> 0, grade |-> "N/A",
                         message |-> "Create some tasks to see your productivity score!"],
                   1, t, seq) }
    ELSE LET total == Cardinality(AllRows(t))
             completed == Cardinality({ r \in AllRows(t) : r.completed })
             with_description ==
                 Cardinality({ r \in AllRows(t) :
                                 Truthy(r.description) /\ ~ Blank(Val(r.description)) })
             completion_score == completed * 40
             description_score == with_description * 30
             volume_score == Min(total * 30, 30 * 50)
             total_score == 50 * completion_score + 50 * description_score
                              + total * volume_score
         IN  { Outcome(200,
                       [score |-> score,
                        grade |-> grade(total_score, 50 * total),
                        breakdown |-> [completion |-> completion,
                                       description_quality |-> description_quality,
                                       task_volume |-> task_volume],
                        stats |-> [total_tasks |-> total,
                                   completed_tasks |-> completed,
                                   tasks_with_descriptions |-> with_description],
                        message |-> get_score_message(total_score, 50 * total)],
                       1, t, seq)
               : score \in Round1(total_score, 50 * total),
                 completion \in Round1(completion_score, total),
                 description_quality \in Round1(description_score, total),
                 task_volume \in Round1(volume_score, 50) }

\* text.strip(): the text without its leading and trailing blanks
RECURSIVE lstrip(_)
lstrip(text) == IF text # <<>> /\ Head(text) = " " THEN lstrip(Tail(text)) ELSE text

RECURSIVE rstrip(_)
rstrip(text) ==
    IF text # <<>> /\ text[Len(text)] = " "
    THEN rstrip(SubSeq(text, 1, Len(text) - 1))
    ELSE text

strip(text) == rstrip(lstrip(text))

Max(a, b) == IF a >= b THEN a ELSE b

\* the if-chain on health_score that sets status
health_status(health_score) ==
    IF health_score >= 90 THEN "Excellent"
    ELSE IF health_score >= 70 THEN "Good"
    ELSE IF health_score >= 50 THEN "Fair"
    ELSE "Needs Attention"

\* the counts of task_health_check over all_tasks.data, and its lists of
\* issues and warnings
health_counts(rows) ==
    [total |-> Cardinality(rows),
     completed |-> Cardinality({ r \in rows : r.completed }),
     with_desc |-> Cardinality({ r \in rows : Truthy(r.description)
                                              /\ strip(Val(r.description)) # <<>> }),
     short_titles |-> Cardinality({ r \in rows : Len(strip(r.title)) < ShortTitle }),
     long_titles |-> Cardinality({ r \in rows : Len(r.title) > LongTitle })]

issues(n) ==
    IF 5 * n.completed < n.total THEN << "Low completion rate (<20%)" >> ELSE <<>>

warnings(n) ==
    (IF 2 * n.with_desc < n.total THEN << "Many tasks lack descriptions" >> ELSE <<>>)
      \o (IF n.short_titles > 0
          THEN << <<"task(s) have very short titles", n.short_titles>> >> ELSE <<>>)
      \o (IF n.long_titles > 0
          THEN << <<"task(s) have very long titles", n.long_titles>> >> ELSE <<>>)

\* task_health_check taking 20 points for a warning as for an issue
task_health_check_harsh(t, seq, f) ==
    IF AllRows(t) = {}
    THEN { Outcome(200, [health_status |-> "No tasks", score |-> 0,
                         message |-> "Create some tasks to get started!"], 1, t, seq) }
    ELSE LET n == health_counts(AllRows(t))
             health_score == Max(0, 100 - Len(issues(n)) * 20 - Len(warnings(n)) * 20)
         IN  { Outcome(200,
                       [health_status |-> health_status(health_score),
                        health_score |-> health_score,
                        issues |-> issues(n),
                        warnings |-> warnings(n),
                        statistics |-> [total_tasks |-> n.total,
                                        completion_rate |-> completion_rate,
                                        tasks_with_descriptions |-> n.with_desc,
                                        short_titles |-> n.short_titles,
                                        long_titles |-> n.long_titles]],
                       1, t, seq)
               : completion_rate \in Round1(100 * n.completed, n.total) }

\* GET /tasks/health-check; completion_rate is in tenths of a percent
task_health_check(t, seq, f) ==
    IF f = 1
    THEN { HTTPException(500, <<"Error checking task health", BackendError>>, 1, t, seq) }
    ELSE IF AllRows(t) = {}
    THEN { Outcome(200, [health_status |-> "No tasks", score |-> 0,
                         message |-> "Create some tasks to get started!"], 1, t, seq) }
    ELSE LET n == health_counts(AllRows(t))
             health_score == Max(0, 100 - Len(issues(n)) * 20 - Len(warnings(n)) * 10)
         IN  { Outcome(200,
                       [health_status |-> health_status(health_score),
                        health_score |-> health_score,
                        issues |-> issues(n),
                        warnings |-> warnings(n),
                        statistics |-> [total_tasks |-> n.total,
                                        completion_rate |-> completion_rate,
                                        tasks_with_descriptions |-> n.with_desc,
                                        short_titles |-> n.short_titles,
                                        long_titles |-> n.long_titles]],
                       1, t, seq)
               : completion_rate \in Round1(100 * n.completed, n.total) }

-----------------------------------------------------------------------------
(* The service handling one request after another *)

NoRequest == [op |-> "none"]
NoResponse == [status |-> 0, body |-> [detail |-> "none"], calls |-> 0]
NoPrev == [pre |-> <<>>, req |-> NoRequest, resp |-> NoResponse]
NoWalk == [page_size |-> 0, sort_by |-> "", order |-> "", pages |-> <<>>, total_pages |-> 0]
NoRun == [op |-> "none"]

Init ==
    /\ tasks = <<>>
    /\ id_seq = 1
    /\ now = 0
    /\ pre = <<>>
    /\ req = NoRequest
    /\ resp = NoResponse
    /\ prev = NoPrev
    /\ walk = NoWalk
    /\ run = NoRun

\* no request is remembered: the client has read the last response
Idle == req = NoRequest

\* the request r is handled with outcome o
Handled(r, o) ==
    /\ prev' = IF Idle THEN NoPrev ELSE [pre |-> pre, req |-> req, resp |-> resp]
    /\ pre' = tasks
    /\ req' = r
    /\ resp' = [status |-> o.status, body |-> o.body, calls |-> o.calls]
    /\ tasks' = o.tasks
    /\ id_seq' = o.id_seq
    /\ UNCHANGED <<now, walk, run>>

\* the client has read the response; the store stays as the request left it
Forget ==
    /\ ~ Idle
    /\ pre' = tasks
    /\ req' = NoRequest
    /\ resp' = NoResponse
    /\ prev' = NoPrev
    /\ UNCHANGED <<tasks, id_seq, now, walk, run>>

\* time passes at the store.  Only inserts read the clock, so it advances at
\* most one tick per insert; rows inserted within one tick tie on created_at.
Tick ==
    /\ Idle
    /\ now < id_seq - 1
    /\ now' = now + 1
    /\ UNCHANGED <<tasks, id_seq, pre, req, resp, prev, walk, run>>

CreateTask ==
    /\ Idle
    /\ id_seq <= MaxId
    /\ \E task \in TaskCreate :
         \E o \in create_task(tasks, id_seq, now, task, NoFail) :
            Handled([op |-> "create_task", task |-> task], o)

\* a fetch, also right after a create (the client fetches what it created)
GetTask ==
    /\ Idle \/ req.op = "create_task"
    /\ \E task_id \in ReqIds :
         \E o \in get_task(tasks, id_seq, task_id, NoFail) :
            Handled([op |-> "get_task", task_id |-> task_id], o)

DeleteTask ==
    /\ Idle
    /\ \E task_id \in ReqIds :
         \E o \in delete_task(tasks, id_seq, task_id, NoFail) :
            Handled([op |-> "delete_task", task_id |-> task_id], o)

\* a toggle, also right after another toggle (the client toggles twice)
ToggleTaskCompletion ==
    /\ Idle \/ req.op = "toggle_task_completion"
    /\ \E task_id \in ReqIds :
         \E o \in toggle_task_completion(tasks, id_seq, task_id, NoFail) :
            Handled([op |-> "toggle_task_completion", task_id |-> task_id], o)

UpdateTask ==
    /\ Idle
    /\ \E task_id \in ReqIds, task \in TaskUpdate :
         \E o \in update_task(tasks, id_seq, task_id, task, NoFail) :
            Handled([op |-> "update_task", task_id |-> task_id, task |-> task], o)

Next ==
    \/ Forget
    \/ Tick
    \/ CreateTask
    \/ GetTask
    \/ DeleteTask
    \/ ToggleTaskCompletion
    \/ UpdateTask

Spec == Init /\ [][Next]_vars

-----------------------------------------------------------------------------
(* Snapshots of the store: the tables the service can have built with ids     *)
(* 1..MaxId, each row with a creation tick no later than the rows after it    *)

SnapshotRows(descriptions) ==
    [id : ReqIds, title : Titles, description : descriptions,
     completed : BOOLEAN, created_at : 0..(MaxId - 1)]

Snapshots(descriptions, ties) ==
    UNION { { t \in [D -> SnapshotRows(descriptions)] :
                /\ \A i \in D : t[i].id = i /\ t[i].created_at < i
                /\ \A i \in D : ~ ties => t[i].created_at = i - 1
                /\ \A i, j \in D : i < j => t[i].created_at <= t[j].created_at }
            : D \in SUBSET ReqIds }

InitSnapshot(t) ==
    /\ tasks = t
    /\ id_seq = MaxId + 1
    /\ now = MaxId - 1
    /\ pre = t
    /\ req = NoRequest
    /\ resp = NoResponse
    /\ prev = NoPrev
    /\ walk = NoWalk
    /\ run = NoRun

-----------------------------------------------------------------------------
(* Bulk requests over a snapshot *)

InitBulk == \E t \in Snapshots(Descriptions, FALSE) : InitSnapshot(t)

BulkDeleteTasks ==
    /\ Idle
    /\ \E task_ids \in BulkIds :
         \E o \in bulk_delete_tasks(tasks, id_seq, task_ids, NoFail) :
            Handled([op |-> "bulk_delete_tasks", task_ids |-> task_ids], o)

BulkUpdateTasks ==
    /\ Idle
    /\ \E task_ids \in BulkIds, task \in TaskUpdate :
         \E o \in bulk_update_tasks(tasks, id_seq, task_ids, task, NoFail) :
            Handled([op |-> "bulk_update_tasks", task_ids |-> task_ids,
                     update_data |-> task], o)

NextBulk ==
    \/ BulkDeleteTasks
    \/ BulkUpdateTasks

SpecBulk == InitBulk /\ [][NextBulk]_vars

-----------------------------------------------------------------------------
(* Read requests over a snapshot *)

InitQuery == \E t \in Snapshots({None}, TRUE) : InitSnapshot(t)

GetAllTasks ==
    /\ Idle
    /\ \E sort_by \in SortBys, order \in Orders :
         \E o \in get_all_tasks(tasks, id_seq, sort_by, order, NoFail) :
            Handled([op |-> "get_all_tasks", sort_by |-> sort_by, order |-> order], o)

AdvancedSearch ==
    /\ Idle
    /\ \E query \in Queries, completed \in CompletedFilters,
          sort_by \in SortBys, order \in Orders :
         \E o \in advanced_search(tasks, id_seq, query, completed, sort_by, order, NoFail) :
            Handled([op |-> "advanced_search", query |-> query, completed |-> completed,
                     sort_by |-> sort_by, order |-> order], o)

GetTasksPaginated ==
    /\ Idle
    /\ \E page \in Pages, page_size \in PageSizes, sort_by \in SortBys, order \in Orders :
         \E o \in get_tasks_paginated(tasks, id_seq, page, page_size, sort_by, order, NoFail) :
            Handled([op |-> "get_tasks_paginated", page |-> page, page_size |-> page_size,
                     sort_by |-> sort_by, order |-> order], o)

\* a filter request, also right after another one (the client asks for the
\* completed and for the pending tasks of one snapshot)
FilterTasks ==
    /\ Idle \/ req.op = "filter_tasks"
    /\ \E status \in Statuses :
         \E o \in filter_tasks(tasks, id_seq, status, NoFail) :
            Handled([op |-> "filter_tasks", status |-> status], o)

NextQuery ==
    \/ GetAllTasks
    \/ AdvancedSearch
    \/ GetTasksPaginated
    \/ FilterTasks

SpecQuery == InitQuery /\ [][NextQuery]_vars

-----------------------------------------------------------------------------
(* A client reading every page of one snapshot, page 1 first *)

Ids(data) == [k \in 1..Len(data) |-> data[k].id]

WalkStart ==
    /\ walk = NoWalk
    /\ \E page_size \in 1..MaxPageSize, sort_by \in valid_sorts, order \in {"asc", "desc"} :
         \E o \in get_tasks_paginated(tasks, id_seq, 1, page_size, sort_by, order, NoFail) :
            walk' = [page_size |-> page_size, sort_by |-> sort_by, order |-> order,
                     pages |-> << Ids(o.body.tasks) >>,
                     total_pages |-> o.body.pagination.total_pages]
    /\ UNCHANGED <<tasks, id_seq, now, pre, req, resp, prev, run>>

WalkStep ==
    /\ walk # NoWalk
    /\ Len(walk.pages) < walk.total_pages
    /\ \E o \in get_tasks_paginated(tasks, id_seq, Len(walk.pages) + 1, walk.page_size,
                                    walk.sort_by, walk.order, NoFail) :
          walk' = [walk EXCEPT !.pages = Append(@, Ids(o.body.tasks))]
    /\ UNCHANGED <<tasks, id_seq, now, pre, req, resp, prev, run>>

NextWalk ==
    \/ WalkStart
    \/ WalkStep

SpecWalk == InitQuery /\ [][NextWalk]_vars

-----------------------------------------------------------------------------
(* Pagination of larger stores: 0..MaxRows rows, each created at its own tick *)

LargeStore(n) ==
    [i \in 1..n |-> [id |-> i, title |-> <<"a">>, description |-> None,
                     completed |-> (i % 2 = 0), created_at |-> i - 1]]

InitPage ==
    \E n \in 0..MaxRows :
       /\ tasks = LargeStore(n)
       /\ id_seq = n + 1
       /\ now = n
       /\ pre = tasks
       /\ req = NoRequest
       /\ resp = NoResponse
       /\ prev = NoPrev
       /\ walk = NoWalk
       /\ run = NoRun

GetTasksPaginatedLarge ==
    /\ Idle
    /\ \E page \in Pages, page_size \in 1..MaxLargePageSize, order \in {"asc", "desc"} :
         \E o \in get_tasks_paginated(tasks, id_seq, page, page_size, "created_at", order, NoFail) :
            Handled([op |-> "get_tasks_paginated", page |-> page, page_size |-> page_size,
                     sort_by |-> "created_at", order |-> order], o)

NextPage == GetTasksPaginatedLarge

SpecPage == InitPage /\ [][NextPage]_vars

-----------------------------------------------------------------------------
(* Write and limit requests over a store built by n inserts: ids within     *)
(* 1..n, each row created on its own day, the clock at least a day later     *)

Stores(n) ==
    UNION { { t \in [D -> [id : 1..n, title : { <<"a">> }, description : Descriptions,
                           completed : BOOLEAN, created_at : 0..(n - 1)]] :
                \A i \in D : t[i].id = i /\ t[i].created_at = i - 1 }
            : D \in SUBSET (1..n) }

InitWrite ==
    \E n \in 0..MaxId, age \in 0..MaxAge :
       \E t \in Stores(n) :
          /\ tasks = t
          /\ id_seq = n + 1
          /\ now = n + age
          /\ pre = t
          /\ req = NoRequest
          /\ resp = NoResponse
          /\ prev = NoPrev
          /\ walk = NoWalk
          /\ run = NoRun

CreateTasksBatch ==
    /\ Idle
    /\ \E task_list \in Batches :
         \E o \in create_tasks_batch(tasks, id_seq, now, task_list, NoFail) :
            Handled([op |-> "create_tasks_batch", tasks |-> task_list], o)

CopyTask ==
    /\ Idle
    /\ \E task_id \in ReqIds, times \in Times :
         \E o \in copy_task(tasks, id_seq, now, task_id, times, NoFail) :
            Handled([op |-> "copy_task", task_id |-> task_id, times |-> times], o)

CompareTasks ==
    /\ Idle
    /\ \E task_id_1 \in ReqIds, task_id_2 \in ReqIds :
         \E o \in compare_tasks(tasks, id_seq, task_id_1, task_id_2, NoFail) :
            Handled([op |-> "compare_tasks", task_id_1 |-> task_id_1,
                     task_id_2 |-> task_id_2], o)

MergeTasks ==
    /\ Idle
    /\ \E task_id_1 \in ReqIds, task_id_2 \in ReqIds, delete_originals \in BOOLEAN :
         \E o \in merge_tasks(tasks, id_seq, now, task_id_1, task_id_2,
                              delete_originals, NoFail) :
            Handled([op |-> "merge_tasks", task_id_1 |-> task_id_1,
                     task_id_2 |-> task_id_2, delete_originals |-> delete_originals], o)

MarkAllCompleted ==
    /\ Idle
    /\ \E o \in mark_all_completed(tasks, id_seq, NoFail) :
          Handled([op |-> "mark_all_completed"], o)

MarkAllPending ==
    /\ Idle
    /\ \E o \in mark_all_pending(tasks, id_seq, NoFail) :
          Handled([op |-> "mark_all_pending"], o)

DeleteAllTasks ==
    /\ Idle
    /\ \E confirm \in Confirms :
         \E o \in delete_all_tasks(tasks, id_seq, confirm, NoFail) :
            Handled([op |-> "delete_all_tasks", confirm |-> confirm], o)

\* a reverse-all, also right after another one (the client reverses twice)
ReverseAllTaskStatus ==
    /\ Idle \/ req.op = "reverse_all_task_status"
    /\ \E o \in reverse_all_task_status(tasks, id_seq, NoFail) :
          Handled([op |-> "reverse_all_task_status"], o)

AutoCompleteOldTasks ==
    /\ Idle
    /\ \E created_at_type \in TimestampTypes, days_old \in DaysOld :
         \E o \in auto_complete_old_tasks(tasks, id_seq, now, created_at_type,
                                          days_old, NoFail) :
            Handled([op |-> "auto_complete_old_tasks", days_old |-> days_old], o)

GetRecentTasks ==
    /\ Idle
    /\ \E limit \in Limits :
         \E o \in get_recent_tasks(tasks, id_seq, limit, NoFail) :
            Handled([op |-> "get_recent_tasks", limit |-> limit], o)

GetOldestTasks ==
    /\ Idle
    /\ \E limit \in Limits :
         \E o \in get_oldest_tasks(tasks, id_seq, limit, NoFail) :
            Handled([op |-> "get_oldest_tasks", limit |-> limit], o)

GetTasksWithLongestTitles ==
    /\ Idle
    /\ \E limit \in Limits :
         \E o \in get_tasks_with_longest_titles(tasks, id_seq, limit, NoFail) :
            Handled([op |-> "get_tasks_with_longest_titles", limit |-> limit], o)

GetActivityTimeline ==
    /\ Idle
    /\ \E limit \in Limits :
         \E o \in get_activity_timeline(tasks, id_seq, limit, NoFail) :
            Handled([op |-> "get_activity_timeline", limit |-> limit], o)

\* /tasks/paginated with the default sort_by and order
GetTasksPaginatedByDate ==
    /\ Idle
    /\ \E page \in Pages, page_size \in PageSizes :
         \E o \in get_tasks_paginated(tasks, id_seq, page, page_size,
                                      "created_at", "desc", NoFail) :
            Handled([op |-> "get_tasks_paginated", page |-> page, page_size |-> page_size,
                     sort_by |-> "created_at", order |-> "desc"], o)

NextWrite ==
    \/ CreateTask
    \/ GetTask
    \/ ToggleTaskCompletion
    \/ UpdateTask
    \/ BulkDeleteTasks
    \/ BulkUpdateTasks
    \/ CreateTasksBatch
    \/ CopyTask
    \/ CompareTasks
    \/ MergeTasks
    \/ MarkAllCompleted
    \/ MarkAllPending
    \/ DeleteAllTasks
    \/ ReverseAllTaskStatus
    \/ AutoCompleteOldTasks
    \/ GetRecentTasks
    \/ GetOldestTasks
    \/ GetTasksWithLongestTitles
    \/ GetActivityTimeline
    \/ GetTasksPaginatedByDate

SpecWrite == InitWrite /\ [][NextWrite]_vars

-----------------------------------------------------------------------------
(* reverse-all, auto-complete-old and delete-all store call by store call,   *)
(* with the requests of other clients handled between two of their calls     *)

\* the request r has issued its select: what it read and what is left to do
Started(r, pc, todo, count, error) ==
    [op |-> r.op, req |-> r, pc |-> pc, todo |-> todo, count |-> count,
     changed |-> 0, calls |-> 1, error |-> error, others |-> 0]

Running == run # NoRun /\ run.pc # "done"

\* all_tasks = select("*"); an empty answer is returned at once
ReverseAllSelect ==
    /\ run = NoRun
    /\ \E data \in Unordered(AllRows(tasks)) :
          run' = Started([op |-> "reverse_all_task_status"],
                         IF data = <<>> THEN "return" ELSE "update", data, 0, None)
    /\ UNCHANGED <<tasks, id_seq, now, pre, req, resp, prev, walk>>

\* one turn of the loop: update({"completed": new_status}).eq("id", task['id'])
\* and reversed_count += 1; changed counts the rows the update matched
ReverseAllUpdate ==
    /\ Running
    /\ run.op = "reverse_all_task_status"
    /\ run.pc = "update"
    /\ LET task == Head(run.todo)
       IN  /\ tasks' = UpdateEqId(tasks, task.id, { <<"completed", ~ task.completed>> })
           /\ run' = [run EXCEPT !.todo = Tail(@),
                                 !.count = @ + 1,
                                 !.changed = @ + Cardinality(EqId(tasks, task.id)),
                                 !.calls = @ + 1,
                                 !.pc = IF Tail(run.todo) = <<>> THEN "return" ELSE "update"]
    /\ UNCHANGED <<id_seq, now, pre, req, resp, prev, walk>>

\* all_tasks = select("*").eq("completed", False); old_tasks, or the
\* TypeError of the first comparison
AutoCompleteOldSelect ==
    /\ run = NoRun
    /\ \E created_at_type \in TimestampTypes, days_old \in 1..(MaxAge + 1) :
         \E old_tasks \in Unordered(OldTasks(EqCompleted(tasks, FALSE), now - days_old)) :
            run' = IF created_at_type = "timestamptz" /\ EqCompleted(tasks, FALSE) # {}
                   THEN Started([op |-> "auto_complete_old_tasks", days_old |-> days_old],
                                "return", <<>>, 0, Some(TypeError))
                   ELSE Started([op |-> "auto_complete_old_tasks", days_old |-> days_old],
                                IF old_tasks = <<>> THEN "return" ELSE "update",
                                old_tasks, 0, None)
    /\ UNCHANGED <<tasks, id_seq, now, pre, req, resp, prev, walk>>

\* one turn of the loop: update({"completed": True}).eq("id", task['id'])
\* and updated_count += 1
AutoCompleteOldUpdate ==
    /\ Running
    /\ run.op = "auto_complete_old_tasks"
    /\ run.pc = "update"
    /\ LET task == Head(run.todo)
       IN  /\ tasks' = UpdateEqId(tasks, task.id, { <<"completed", TRUE>> })
           /\ run' = [run EXCEPT !.todo = Tail(@),
                                 !.count = @ + 1,
                                 !.changed = @ + Cardinality(EqId(tasks, task.id)),
                                 !.calls = @ + 1,
                                 !.pc = IF Tail(run.todo) = <<>> THEN "return" ELSE "update"]
    /\ UNCHANGED <<id_seq, now, pre, req, resp, prev, walk>>

\* confirm is true; all_tasks = select("*") and count = len(all_tasks.data)
DeleteAllSelect ==
    /\ run = NoRun
    /\ run' = Started([op |-> "delete_all_tasks", confirm |-> Some(TRUE)],
                      IF AllRows(tasks) = {} THEN "return" ELSE "delete",
                      <<>>, Cardinality(AllRows(tasks)), None)
    /\ UNCHANGED <<tasks, id_seq, now, pre, req, resp, prev, walk>>

\* delete().neq("id", 0); changed counts the rows the delete removed
DeleteAllDelete ==
    /\ Running
    /\ run.op = "delete_all_tasks"
    /\ run.pc = "delete"
    /\ tasks' = DeleteNeqId(tasks, 0)
    /\ run' = [run EXCEPT !.changed = Cardinality(DOMAIN tasks \ DOMAIN DeleteNeqId(tasks, 0)),
                          !.calls = @ + 1,
                          !.pc = "return"]
    /\ UNCHANGED <<id_seq, now, pre, req, resp, prev, walk>>

\* the return statement of the three handlers
RunReturn ==
    /\ Running
    /\ run.pc = "return"
    /\ req' = run.req
    /\ resp' =
         IF ~ IsNone(run.error)
         THEN [status |-> 500,
               body |-> [detail |-> <<"Error auto-completing old tasks", Val(run.error)>>],
               calls |-> run.calls]
         ELSE IF run.op = "reverse_all_task_status"
         THEN [status |-> 200,
               body |-> IF run.calls = 1
                        THEN [message |-> "No tasks to reverse", reversed_count |-> 0]
                        ELSE [message |-> <<"Reversed status of task(s)", run.count>>,
                              reversed_count |-> run.count,
                              warning |-> "All completed tasks are now pending, and vice versa!"],
               calls |-> run.calls]
         ELSE IF run.op = "auto_complete_old_tasks"
         THEN [status |-> 200,
               body |-> [message |-> <<"Auto-completed old task(s)", run.count>>,
                         updated_count |-> run.count,
                         cutoff_date |-> now - run.req.days_old,
                         days_old |-> run.req.days_old],
               calls |-> run.calls]
         ELSE [status |-> 200,
               body |-> IF run.calls = 1
                        THEN [message |-> "No tasks to delete", deleted_count |-> 0]
                        ELSE [message |-> "All tasks deleted successfully",
                              deleted_count |-> run.count],
               calls |-> run.calls]
    /\ run' = [run EXCEPT !.pc = "done"]
    /\ UNCHANGED <<tasks, id_seq, now, pre, prev, walk>>

\* another client's request, handled whole between two store calls of the
\* request in progress
Interleaved(o) ==
    /\ Running
    /\ run.others < MaxOthers
    /\ tasks' = o.tasks
    /\ id_seq' = o.id_seq
    /\ run' = [run EXCEPT !.others = @ + 1]
    /\ UNCHANGED <<now, pre, req, resp, prev, walk>>

OtherCreateTask ==
    /\ id_seq <= MaxId
    /\ \E task \in BatchTasks :
         \E o \in create_task(tasks, id_seq, now, task, NoFail) : Interleaved(o)

OtherDeleteTask ==
    \E task_id \in ReqIds :
       \E o \in delete_task(tasks, id_seq, task_id, NoFail) :
          o.status = 200 /\ Interleaved(o)

OtherToggleTaskCompletion ==
    \E task_id \in ReqIds :
       \E o \in toggle_task_completion(tasks, id_seq, task_id, NoFail) :
          o.status = 200 /\ Interleaved(o)

NextRace ==
    \/ ReverseAllSelect
    \/ ReverseAllUpdate
    \/ AutoCompleteOldSelect
    \/ AutoCompleteOldUpdate
    \/ DeleteAllSelect
    \/ DeleteAllDelete
    \/ RunReturn
    \/ OtherCreateTask
    \/ OtherDeleteTask
    \/ OtherToggleTaskCompletion

SpecRace == InitWrite /\ [][NextRace]_vars

-----------------------------------------------------------------------------
(* Requests during which one store call fails *)

FailUpdates ==
    { [title |-> None, description |-> None, completed |-> None],
      [title |-> None, description |-> None, completed |-> Some(TRUE)] }

\* the requests sent, each with its arguments
FailRequests ==
    { [op |-> "create_task", task |-> task] : task \in BatchTasks }
      \cup { [op |-> op, task_id |-> task_id] :
               op \in {"get_task", "delete_task", "toggle_task_completion"},
               task_id \in ReqIds }
      \cup { [op |-> "update_task", task_id |-> task_id, task |-> task] :
               task_id \in ReqIds, task \in FailUpdates }
      \cup { [op |-> "bulk_delete_tasks", task_ids |-> task_ids] : task_ids \in BulkIds }
      \cup { [op |-> "bulk_update_tasks", task_ids |-> task_ids, update_data |-> task] :
               task_ids \in BulkIds, task \in FailUpdates }
      \cup { [op |-> "create_tasks_batch", tasks |-> task_list] : task_list \in Batches }
      \cup { [op |-> "copy_task", task_id |-> task_id, times |-> times] :
               task_id \in ReqIds, times \in Times }
      \cup { [op |-> op, task_id_1 |-> task_id_1, task_id_2 |-> task_id_2,
              delete_originals |-> delete_originals] :
               op \in {"merge_tasks"}, task_id_1 \in ReqIds, task_id_2 \in ReqIds,
               delete_originals \in BOOLEAN }
      \cup { [op |-> "compare_tasks", task_id_1 |-> task_id_1, task_id_2 |-> task_id_2] :
               task_id_1 \in ReqIds, task_id_2 \in ReqIds }
      \cup { [op |-> op] :
               op \in {"mark_all_completed", "mark_all_pending", "reverse_all_task_status"} }
      \cup { [op |-> "delete_all_tasks", confirm |-> confirm] : confirm \in Confirms }
      \cup { [op |-> "auto_complete_old_tasks", created_at_type |-> created_at_type,
              days_old |-> days_old] :
               created_at_type \in TimestampTypes, days_old \in DaysOld }
      \cup { [op |-> op, limit |-> limit] :
               op \in {"get_recent_tasks", "get_oldest_tasks",
                       "get_tasks_with_longest_titles", "get_activity_timeline"},
               limit \in Limits }
      \cup { [op |-> "get_tasks_paginated", page |-> page, page_size |-> page_size,
              sort_by |-> "created_at", order |-> "desc"] :
               page \in Pages, page_size \in PageSizes }

\* the handler the application calls for request r
Handle(r, t, seq, clock, f) ==
    CASE r.op = "create_task" -> create_task(t, seq, clock, r.task, f)
      [] r.op = "get_task" -> get_task(t, seq, r.task_id, f)
      [] r.op = "delete_task" -> delete_task(t, seq, r.task_id, f)
      [] r.op = "toggle_task_completion" -> toggle_task_completion(t, seq, r.task_id, f)
      [] r.op = "update_task" -> update_task(t, seq, r.task_id, r.task, f)
      [] r.op = "bulk_delete_tasks" -> bulk_delete_tasks(t, seq, r.task_ids, f)
      [] r.op = "bulk_update_tasks" -> bulk_update_tasks(t, seq, r.task_ids, r.update_data, f)
      [] r.op = "create_tasks_batch" -> create_tasks_batch(t, seq, clock, r.tasks, f)
      [] r.op = "copy_task" -> copy_task(t, seq, clock, r.task_id, r.times, f)
      [] r.op = "merge_tasks" ->
            merge_tasks(t, seq, clock, r.task_id_1, r.task_id_2, r.delete_originals, f)
      [] r.op = "compare_tasks" -> compare_tasks(t, seq, r.task_id_1, r.task_id_2, f)
      [] r.op = "mark_all_completed" -> mark_all_completed(t, seq, f)
      [] r.op = "mark_all_pending" -> mark_all_pending(t, seq, f)
      [] r.op = "reverse_all_task_status" -> reverse_all_task_status(t, seq, f)
      [] r.op = "delete_all_tasks" -> delete_all_tasks(t, seq, r.confirm, f)
      [] r.op = "auto_complete_old_tasks" ->
            auto_complete_old_tasks(t, seq, clock, r.created_at_type, r.days_old, f)
      [] r.op = "get_recent_tasks" -> get_recent_tasks(t, seq, r.limit, f)
      [] r.op = "get_oldest_tasks" -> get_oldest_tasks(t, seq, r.limit, f)
      [] r.op = "get_tasks_with_longest_titles" ->
            get_tasks_with_longest_titles(t, seq, r.limit, f)
      [] r.op = "get_activity_timeline" -> get_activity_timeline(t, seq, r.limit, f)
      [] r.op = "get_tasks_paginated" ->
            get_tasks_paginated(t, seq, r.page, r.page_size, r.sort_by, r.order, f)

InitFail == InitWrite /\ now = id_seq - 1 + MaxAge

\* a request whose store call number f fails, if the request gets that far
FailingRequest ==
    /\ Idle
    /\ \E r \in FailRequests, f \in 1..MaxFail :
         \E o \in Handle(r, tasks, id_seq, now, f) :
            Handled([op |-> r.op, args |-> r, fail |-> f], o)

NextFail == FailingRequest

SpecFail == InitFail /\ [][NextFail]_vars

-----------------------------------------------------------------------------
(* The productivity score of stores of 0..MaxScoreRows rows *)

\* a store of n rows: the first c completed, the last d with a description
\* that is not blank, the others with none, an empty or a blank one
ScoreStore(n, c, d) ==
    [i \in 1..n |->
       [id |-> i, title |-> <<"a">>,
        description |-> IF i > n - d THEN Some(<<"d">>)
                        ELSE IF i % 3 = 0 THEN None
                        ELSE IF i % 3 = 1 THEN Some(<<>>)
                        ELSE Some(<<" ">>),
        completed |-> (i <= c), created_at |-> i - 1]]

InitScore ==
    \E n \in 0..MaxScoreRows :
       \E c \in 0..n, d \in 0..n :
          /\ tasks = ScoreStore(n, c, d)
          /\ id_seq = n + 1
          /\ now = n
          /\ pre = tasks
          /\ req = NoRequest
          /\ resp = NoResponse
          /\ prev = NoPrev
          /\ walk = NoWalk
          /\ run = NoRun

CalculateProductivityScore ==
    /\ Idle
    /\ \E o \in calculate_productivity_score(tasks, id_seq, NoFail) :
          Handled([op |-> "calculate_productivity_score"], o)

NextScore == CalculateProductivityScore

SpecScore == InitScore /\ [][NextScore]_vars

-----------------------------------------------------------------------------
(* The application's routes and the root endpoint catalogue *)

\* a path is the sequence of its segments; a segment in braces is a parameter
APIRoute(method, path, endpoint) == [method |-> method, path |-> path, endpoint |-> endpoint]

\* app.routes: one route per decorator, in the order of declaration
routes ==
    << APIRoute("GET", <<>>, "read_root"),
       APIRoute("POST", <<"tasks">>, "create_task"),
       APIRoute("GET", <<"tasks">>, "get_all_tasks"),
       APIRoute("PUT", <<"tasks", "{task_id}">>, "update_task"),
       APIRoute("DELETE", <<"tasks", "{task_id}">>, "delete_task"),
       APIRoute("GET", <<"tasks", "{task_id}">>, "get_task"),
       APIRoute("GET", <<"tasks", "filter", "{status}">>, "filter_tasks"),
       APIRoute("GET", <<"tasks", "search">>, "search_tasks"),
       APIRoute("GET", <<"tasks", "stats">>, "get_detailed_stats"),
       APIRoute("DELETE", <<"tasks", "clear-completed">>, "clear_completed"),
       APIRoute("PATCH", <<"tasks", "{task_id}", "toggle">>, "toggle_task_completion"),
       APIRoute("GET", <<"tasks", "recent">>, "get_recent_tasks"),
       APIRoute("GET", <<"tasks", "advanced-search">>, "advanced_search"),
       APIRoute("PATCH", <<"tasks", "bulk", "mark-completed">>, "mark_all_completed"),
       APIRoute("PATCH", <<"tasks", "bulk", "mark-pending">>, "mark_all_pending"),
       APIRoute("DELETE", <<"tasks", "delete-all">>, "delete_all_tasks"),
       APIRoute("GET", <<"tasks", "paginated">>, "get_tasks_paginated"),
       APIRoute("POST", <<"tasks", "batch">>, "create_tasks_batch"),
       APIRoute("POST", <<"tasks", "duplicate-check">>, "check_duplicate_task"),
       APIRoute("GET", <<"tasks", "count">>, "get_task_counts"),
       APIRoute("DELETE", <<"tasks", "bulk-delete">>, "bulk_delete_tasks"),
       APIRoute("GET", <<"tasks", "export">>, "export_tasks"),
       APIRoute("GET", <<"tasks", "summary">>, "get_task_summary"),
       APIRoute("PATCH", <<"tasks", "bulk-update">>, "bulk_update_tasks"),
       APIRoute("GET", <<"tasks", "oldest">>, "get_oldest_tasks"),
       APIRoute("GET", <<"tasks", "longest-titles">>, "get_tasks_with_longest_titles"),
       APIRoute("GET", <<"tasks", "random">>, "get_random_task"),
       APIRoute("GET", <<"tasks", "search-everywhere">>, "search_everywhere"),
       APIRoute("GET", <<"tasks", "incomplete-with-description">>,
                "get_incomplete_with_description"),
       APIRoute("GET", <<"tasks", "needs-attention">>, "get_tasks_needing_attention"),
       APIRoute("POST", <<"tasks", "{task_id}", "copy">>, "copy_task"),
       APIRoute("GET", <<"tasks", "completion-streak">>, "get_completion_streak"),
       APIRoute("GET", <<"tasks", "by-title-length">>, "get_tasks_by_title_length"),
       APIRoute("GET", <<"tasks", "quick-stats">>, "get_quick_stats"),
       APIRoute("PATCH", <<"tasks", "reverse-all">>, "reverse_all_task_status"),
       APIRoute("GET", <<"tasks", "word-count">>, "get_task_word_counts"),
       APIRoute("GET", <<"tasks", "motivational-quote">>, "get_motivational_quote"),
       APIRoute("GET", <<"tasks", "today">>, "get_tasks_created_today"),
       APIRoute("GET", <<"tasks", "this-week">>, "get_tasks_this_week"),
       APIRoute("GET", <<"tasks", "compare", "{task_id_1}", "{task_id_2}">>, "compare_tasks"),
       APIRoute("POST", <<"tasks", "merge">>, "merge_tasks"),
       APIRoute("GET", <<"tasks", "name-suggestions">>, "get_task_name_suggestions"),
       APIRoute("GET", <<"tasks", "activity-timeline">>, "get_activity_timeline"),
       APIRoute("GET", <<"tasks", "empty-check">>, "check_empty_tasks"),
       APIRoute("GET", <<"tasks", "productivity-score">>, "calculate_productivity_score"),
       APIRoute("POST", <<"tasks", "auto-complete-old">>, "auto_complete_old_tasks"),
       APIRoute("GET", <<"tasks", "alphabet-list">>, "get_tasks_alphabetically"),
       APIRoute("GET", <<"tasks", "health-check">>, "task_health_check") >>

\* the parameters of the declared paths; the handlers annotate all but
\* {status} as int
PathParams == {"{task_id}", "{status}", "{task_id_1}", "{task_id_2}"}
IntParams == {"{task_id}", "{task_id_1}", "{task_id_2}"}

\* read_root: the "endpoints" catalogue, each entry's method and path
endpoints ==
    { <<"GET", <<"tasks">>>>,
      <<"POST", <<"tasks">>>>,
      <<"GET", <<"tasks", "{id}">>>>,
      <<"PUT", <<"tasks", "{id}">>>>,
      <<"DELETE", <<"tasks", "{id}">>>>,
      <<"GET", <<"tasks", "filter", "{status}">>>>,
      <<"GET", <<"tasks", "search">>>>,
      <<"GET", <<"tasks", "advanced-search">>>>,
      <<"POST", <<"tasks", "duplicate-check">>>>,
      <<"GET", <<"tasks", "stats">>>>,
      <<"GET", <<"tasks", "count">>>>,
      <<"GET", <<"tasks", "summary">>>>,
      <<"GET", <<"tasks", "recent">>>>,
      <<"GET", <<"tasks", "oldest">>>>,
      <<"GET", <<"tasks", "longest-titles">>>>,
      <<"GET", <<"tasks", "paginated">>>>,
      <<"POST", <<"tasks", "batch">>>>,
      <<"PATCH", <<"tasks", "bulk-update">>>>,
      <<"DELETE", <<"tasks", "bulk-delete">>>>,
      <<"PATCH", <<"tasks", "bulk", "mark-completed">>>>,
      <<"PATCH", <<"tasks", "bulk", "mark-pending">>>>,
      <<"DELETE", <<"tasks", "clear-completed">>>>,
      <<"DELETE", <<"tasks", "delete-all">>>>,
      <<"PATCH", <<"tasks", "{id}", "toggle">>>>,
      <<"GET", <<"tasks", "export">>>>,
      <<"GET", <<"tasks", "random">>>>,
      <<"POST", <<"tasks", "{id}", "copy">>>>,
      <<"GET", <<"tasks", "search-everywhere">>>>,
      <<"GET", <<"tasks", "needs-attention">>>>,
      <<"GET", <<"tasks", "word-count">>>>,
      <<"GET", <<"tasks", "motivational-quote">>>>,
      <<"GET", <<"tasks", "completion-streak">>>>,
      <<"GET", <<"tasks", "quick-stats">>>>,
      <<"PATCH", <<"tasks", "reverse-all">>>>,
      <<"GET", <<"tasks", "by-title-length">>>>,
      <<"GET", <<"tasks", "today">>>>,
      <<"GET", <<"tasks", "this-week">>>>,
      <<"GET", <<"tasks", "compare", "{id1}", "{id2}">>>>,
      <<"POST", <<"tasks", "merge">>>>,
      <<"GET", <<"tasks", "name-suggestions">>>>,
      <<"GET", <<"tasks", "activity-timeline">>>>,
      <<"GET", <<"tasks", "empty-check">>>>,
      <<"GET", <<"tasks", "productivity-score">>>>,
      <<"POST", <<"tasks", "auto-complete-old">>>>,
      <<"GET", <<"tasks", "alphabet-list">>>>,
      <<"GET", <<"tasks", "health-check">>>> }

\* the segments a client puts in place of a parameter: decimal ids and words
IdSegments == << "1", "2", "3", "4", "5", "6", "7", "8", "9" >>
ParamValues == { IdSegments[n] : n \in ReqIds } \cup {"completed", "x"}

\* int(segment): the segments that parse as an integer
IsInt(segment) == \E n \in DOMAIN IdSegments : IdSegments[n] = segment

Methods == {"GET", "POST", "PUT", "PATCH", "DELETE"}

\* the path regex of a route: a parameter stands for one non-empty segment
\* without "/", whatever its annotation; any other segment stands for itself
PathMatches(pattern, path) ==
    /\ Len(pattern) = Len(path)
    /\ \A k \in 1..Len(path) : pattern[k] \in PathParams \/ pattern[k] = path[k]

\* the first route, in declaration order, whose path and method match
FirstMatch(method, path) ==
    LET full == { k \in DOMAIN routes :
                    routes[k].method = method /\ PathMatches(routes[k].path, path) }
    IN  IF full = {} THEN 0 ELSE CHOOSE k \in full : \A j \in full : k <= j

\* the values of the path parameters of a matched route
PathValues(pattern, path) ==
    [p \in { pattern[k] : k \in { j \in 1..Len(pattern) : pattern[j] \in PathParams } } |->
        path[CHOOSE k \in 1..Len(pattern) : pattern[k] = p]]

\* the paths clients request: every declared path with its parameters
\* replaced by segments, and a path no route declares
Filled(pattern, values) ==
    [k \in 1..Len(pattern) |->
        IF pattern[k] \in PathParams THEN values[pattern[k]] ELSE pattern[k]]

RequestPaths ==
    { Filled(routes[k].path, values) :
        k \in DOMAIN routes, values \in [PathParams -> ParamValues] }
      \cup { <<"task">> }

\* the application receives a request: the router picks the route; a path
\* that matches no route is answered 404, one that matches only routes of
\* other methods 405; a parameter annotated int that does not parse is
\* answered 422 without calling the endpoint; otherwise the endpoint is
\* called with the parameters
Dispatch ==
    /\ Idle
    /\ run = NoRun
    /\ \E method \in Methods, path \in RequestPaths :
         LET k == FirstMatch(method, path)
             partial == \E j \in DOMAIN routes : PathMatches(routes[j].path, path)
             path_params == PathValues(routes[k].path, path)
             invalid == \E p \in DOMAIN path_params :
                           p \in IntParams /\ ~ IsInt(path_params[p])
         IN  /\ req' = [op |-> "request", method |-> method, path |-> path]
             /\ resp' = IF k = 0 /\ partial
                        THEN [status |-> 405, body |-> [detail |-> "Method Not Allowed"],
                              calls |-> 0]
                        ELSE IF k = 0
                        THEN [status |-> 404, body |-> [detail |-> "Not Found"], calls |-> 0]
                        ELSE IF invalid
                        THEN [status |-> 422, body |-> [detail |-> "int_parsing"], calls |-> 0]
                        ELSE NoResponse
             /\ run' = IF k = 0 THEN NoRun
                       ELSE [op |-> routes[k].endpoint,
                             pc |-> IF invalid THEN "done" ELSE "called",
                             path_params |-> path_params]
    /\ UNCHANGED <<tasks, id_seq, now, pre, prev, walk>>

NextRoute == Dispatch

SpecRoute == Init /\ [][NextRoute]_vars

-----------------------------------------------------------------------------
(* Clients whose toggle, update and delete requests run store call by store  *)
(* call: between the select and the write of one request the store calls of  *)
(* the other clients' requests may come                                      *)

Clients == 1..MaxClients

ClientUpdates ==
    { [title |-> None, description |-> None, completed |-> Some(TRUE)],
      [title |-> Some(<<"B", "a">>), description |-> None, completed |-> None] }

InitClients ==
    \E n \in 1..MaxId :
       \E t \in Stores(n) :
          /\ tasks = t
          /\ id_seq = n + 1
          /\ now = n
          /\ pre = t
          /\ req = NoRequest
          /\ resp = NoResponse
          /\ prev = NoPrev
          /\ walk = NoWalk
          /\ run = [c \in Clients |-> NoRun]

\* client c's request r has read the rows data with its first store call
Selected(r, data) ==
    [op |-> r.op, req |-> r, pc |-> IF data = {} THEN "not_found" ELSE "write",
     data |-> data, calls |-> 1]

\* response.data[0] of a write that matched no row
IndexError == "list index out of range"

\* toggle: current = select("completed").eq("id", task_id)
ToggleSelect(c) ==
    /\ run[c] = NoRun
    /\ \E task_id \in ReqIds :
          run' = [run EXCEPT ![c] = Selected([op |-> "toggle_task_completion",
                                              task_id |-> task_id],
                                             EqId(tasks, task_id))]
    /\ UNCHANGED <<tasks, id_seq, now, pre, req, resp, prev, walk>>

\* toggle: new_status = not current.data[0]['completed'], the update, and the
\* return of response.data[0]
ToggleUpdate(c) ==
    /\ run[c].op = "toggle_task_completion"
    /\ run[c].pc = "write"
    /\ LET task_id == run[c].req.task_id
           new_status == ~ (CHOOSE r \in run[c].data : TRUE).completed
           changes == { <<"completed", new_status>> }
           data == UpdatedEqId(tasks, task_id, changes)
       IN  /\ tasks' = UpdateEqId(tasks, task_id, changes)
           /\ \/ /\ data = {}
                 /\ run' = [run EXCEPT ![c] =
                              [op |-> @.op, req |-> @.req, pc |-> "done",
                               resp |-> [status |-> 500,
                                         body |-> [detail |-> <<"Error toggling task",
                                                                IndexError>>],
                                         calls |-> 2]]]
              \/ \E r \in data :
                    run' = [run EXCEPT ![c] =
                              [op |-> @.op, req |-> @.req, pc |-> "done",
                               resp |-> [status |-> 200,
                                         body |-> [message |->
                                                      IF new_status
                                                      THEN "Task marked as completed"
                                                      ELSE "Task marked as pending",
                                                   task |-> r],
                                         calls |-> 2]]]
    /\ UNCHANGED <<id_seq, now, pre, req, resp, prev, walk>>

\* update: existing = select("*").eq("id", task_id); update_data is not empty
UpdateSelect(c) ==
    /\ run[c] = NoRun
    /\ \E task_id \in ReqIds, task \in ClientUpdates :
          run' = [run EXCEPT ![c] = Selected([op |-> "update_task", task_id |-> task_id,
                                              task |-> task],
                                             EqId(tasks, task_id))]
    /\ UNCHANGED <<tasks, id_seq, now, pre, req, resp, prev, walk>>

\* update: update(update_data).eq("id", task_id) and the return of
\* response.data[0]
UpdateUpdate(c) ==
    /\ run[c].op = "update_task"
    /\ run[c].pc = "write"
    /\ LET task_id == run[c].req.task_id
           changes == update_data(run[c].req.task)
           data == UpdatedEqId(tasks, task_id, changes)
       IN  /\ tasks' = UpdateEqId(tasks, task_id, changes)
           /\ \/ /\ data = {}
                 /\ run' = [run EXCEPT ![c] =
                              [op |-> @.op, req |-> @.req, pc |-> "done",
                               resp |-> [status |-> 500,
                                         body |-> [detail |-> <<"Error updating task",
                                                                IndexError>>],
                                         calls |-> 2]]]
              \/ \E r \in data :
                    run' = [run EXCEPT ![c] =
                              [op |-> @.op, req |-> @.req, pc |-> "done",
                               resp |-> [status |-> 200,
                                         body |-> [message |-> "Task updated successfully",
                                                   task |-> r],
                                         calls |-> 2]]]
    /\ UNCHANGED <<id_seq, now, pre, req, resp, prev, walk>>

\* delete: existing = select("*").eq("id", task_id)
DeleteSelect(c) ==
    /\ run[c] = NoRun
    /\ \E task_id \in ReqIds :
          run' = [run EXCEPT ![c] = Selected([op |-> "delete_task", task_id |-> task_id],
                                             EqId(tasks, task_id))]
    /\ UNCHANGED <<tasks, id_seq, now, pre, req, resp, prev, walk>>

\* delete: delete().eq("id", task_id) and the return of existing.data[0]
DeleteDelete(c) ==
    /\ run[c].op = "delete_task"
    /\ run[c].pc = "write"
    /\ LET task_id == run[c].req.task_id
       IN  /\ tasks' = DeleteEqId(tasks, task_id)
           /\ \E r \in run[c].data :
                 run' = [run EXCEPT ![c] =
                           [op |-> @.op, req |-> @.req, pc |-> "done",
                            resp |-> [status |-> 200,
                                      body |-> [message |-> "Task deleted successfully",
                                                deleted_task_id |-> task_id,
                                                deleted_task |-> r],
                                      calls |-> 2]]]
    /\ UNCHANGED <<id_seq, now, pre, req, resp, prev, walk>>

\* the three handlers: if not existing.data, raise HTTPException(404)
RaiseNotFound(c) ==
    /\ run[c].op # "none"
    /\ run[c].pc = "not_found"
    /\ run' = [run EXCEPT ![c] =
                 [op |-> @.op, req |-> @.req, pc |-> "done",
                  resp |-> [status |-> 404,
                            body |-> [detail |-> <<"Task with id not found",
                                                   @.req.task_id>>],
                            calls |-> 1]]]
    /\ UNCHANGED <<tasks, id_seq, now, pre, req, resp, prev, walk>>

NextClients ==
    \/ \E c \in Clients : ToggleSelect(c)
    \/ \E c \in Clients : ToggleUpdate(c)
    \/ \E c \in Clients : UpdateSelect(c)
    \/ \E c \in Clients : UpdateUpdate(c)
    \/ \E c \in Clients : DeleteSelect(c)
    \/ \E c \in Clients : DeleteDelete(c)
    \/ \E c \in Clients : RaiseNotFound(c)

SpecClients == InitClients /\ [][NextClients]_vars

-----------------------------------------------------------------------------
(* The health check of stores of 0..MaxHealthRows rows *)

\* a title of n copies of the character c
Repeat(c, n) == [k \in 1..n |-> c]

\* a store of n rows: the first c completed, the last d with a description
\* that is not blank, the first s with a short title (bare or padded with
\* blanks), the last l with a long one (of letters or of blanks), the others
\* with a title of ShortTitle letters
HealthStore(n, c, d, s, l) ==
    [i \in 1..n |->
       [id |-> i,
        title |-> IF i <= s
                  THEN (IF i % 2 = 1 THEN <<"a">> ELSE <<" ", " ", "a", "b", " ", " ">>)
                  ELSE IF i > n - l
                  THEN (IF i % 2 = 1 THEN Repeat("a", LongTitle + 1)
                                     ELSE Repeat(" ", LongTitle + 1))
                  ELSE Repeat("a", ShortTitle),
        description |-> IF i > n - d THEN Some(<<"d">>)
                        ELSE IF i % 3 = 0 THEN None
                        ELSE IF i % 3 = 1 THEN Some(<<>>)
                        ELSE Some(<<" ">>),
        completed |-> (i <= c), created_at |-> i - 1]]

InitHealth ==
    \E n \in 0..MaxHealthRows :
       \E c \in 0..n, d \in 0..n, s \in 0..n :
          \E l \in 0..(n - s) :
             /\ tasks = HealthStore(n, c, d, s, l)
             /\ id_seq = n + 1
             /\ now = n
             /\ pre = tasks
             /\ req = NoRequest
             /\ resp = NoResponse
             /\ prev = NoPrev
             /\ walk = NoWalk
             /\ run = NoRun

TaskHealthCheck ==
    /\ Idle
    /\ \E o \in task_health_check(tasks, id_seq, NoFail) :
          Handled([op |-> "task_health_check"], o)

NextHealth == TaskHealthCheck

SpecHealth == InitHealth /\ [][NextHealth]_vars

-----------------------------------------------------------------------------
(* Properties *)

\* the rows of t other than the row with id task_id
Others(t, task_id) == [i \in DOMAIN t \ {task_id} |-> t[i]]

(* C1: a toggle of an existing task succeeds and negates its completed flag,
   changing no other field and no other task; two successive successful
   toggles of one id, with no request in between, leave the store as it was
   before the first. *)
C1_ToggleTwiceRestores ==
    /\ (req.op = "toggle_task_completion" /\ req.task_id \in DOMAIN pre) =>
          /\ resp.status = 200
          /\ DOMAIN tasks = DOMAIN pre
          /\ tasks[req.task_id].completed = ~ pre[req.task_id].completed
          /\ \A c \in Columns \ {"completed"} :
                tasks[req.task_id][c] = pre[req.task_id][c]
          /\ Others(tasks, req.task_id) = Others(pre, req.task_id)
    /\ (/\ req.op = "toggle_task_completion" /\ resp.status = 200
        /\ prev.req = req /\ prev.resp.status = 200) =>
          /\ tasks = prev.pre
          /\ tasks[req.task_id].completed = prev.pre[req.task_id].completed

C1_Witness ==
    /\ req.op = "toggle_task_completion" /\ resp.status = 200
    /\ prev.req = req /\ prev.resp.status = 200
    /\ Cardinality(DOMAIN tasks) > 1

(* C2: deleting an id that is not in the store answers 404 and leaves the
   store unchanged; deleting an id that is in the store answers 200 and
   removes exactly that row. *)
C2_DeleteMissingIsNotFound ==
    req.op = "delete_task" =>
       IF req.task_id \notin DOMAIN pre
       THEN resp.status = 404 /\ tasks = pre
       ELSE /\ resp.status = 200
            /\ resp.body.deleted_task = pre[req.task_id]
            /\ tasks = Others(pre, req.task_id)

C2_Witness ==
    /\ req.op = "delete_task"
    /\ req.task_id \notin DOMAIN pre
    /\ resp.status = 404
    /\ DOMAIN pre # {}

(* C3: every create succeeds, and a fetch by the id the create response
   returned, sent right after it, answers 200 with the title, description
   and completed value of the create request. *)
C3_CreateThenGet ==
    /\ req.op = "create_task" => resp.status = 201
    /\ (/\ prev.req.op = "create_task" /\ prev.resp.status = 201
        /\ req.op = "get_task" /\ req.task_id = prev.resp.body.task.id) =>
          /\ resp.status = 200
          /\ resp.body.task.title = prev.req.task.title
          /\ resp.body.task.description = prev.req.task.description
          /\ resp.body.task.completed = prev.req.task.completed

C3_Witness ==
    /\ prev.req.op = "create_task" /\ prev.resp.status = 201
    /\ req.op = "get_task" /\ req.task_id = prev.resp.body.task.id
    /\ resp.status = 200
    /\ prev.req.task.completed /\ prev.req.task.description # None

\* the three handlers that take sort_by and order
SortingOps == {"get_all_tasks", "advanced_search", "get_tasks_paginated"}

(* C4: in get_all_tasks, advanced_search and get_tasks_paginated a sort_by
   outside {created_at, title, completed} is answered with a 400 before any
   store call is issued. *)
C4_BadSortByRejected ==
    (req.op \in SortingOps /\ req.sort_by \notin {"created_at", "title", "completed"}) =>
       resp.status = 400 /\ resp.calls = 0

(* C5: in get_all_tasks, advanced_search and get_tasks_paginated an order
   other than asc or desc is answered with a 400 before any store call is
   issued. *)
C5_BadOrderRejected ==
    (req.op \in SortingOps /\ req.order \notin {"asc", "desc"}) =>
       resp.status = 400 /\ resp.calls = 0

\* data is sorted on key in the direction order
SortedBy(data, key, order) ==
    \A i, j \in 1..Len(data) :
       i < j => IF order = "desc" THEN KeyLeq(key, data[j], data[i])
                                  ELSE KeyLeq(key, data[i], data[j])

\* q occurs in title, letters compared without case
ContainsFold(title, q) ==
    \E k \in 0..(Len(title) - Len(q)) :
       \A m \in 1..Len(q) : Lower(title[k + m]) = Lower(q[m])

\* row r passes the text filter query: no filter for None and the empty text;
\* a query of plain characters is a case-insensitive substring test; a query
\* holding "%" or "_" is the ILIKE pattern it spells
PassesQuery(r, query) ==
    \/ IsNone(query)
    \/ Val(query) = <<>>
    \/ IF \E m \in 1..Len(Val(query)) : Val(query)[m] \in {"%", "_"}
       THEN Like(<<"%">> \o Val(query) \o <<"%">>, r.title)
       ELSE ContainsFold(r.title, Val(query))

\* the rows of pre that match the last request's filter
C6_Matching ==
    IF req.op = "get_all_tasks" THEN AllRows(pre)
    ELSE { r \in AllRows(pre) :
             /\ PassesQuery(r, req.query)
             /\ IsNone(req.completed) \/ r.completed = Val(req.completed) }

Elems(data) == { data[k] : k \in 1..Len(data) }

(* C6: for sort_by in {created_at, title, completed} and order in {asc, desc}
   get_all_tasks and advanced_search answer 200 with a list that is sorted on
   that key in that direction, holds each stored row matching the request's
   filter exactly once and no other row, and count is its length. *)
C6_SortedPermutation ==
    (/\ req.op \in {"get_all_tasks", "advanced_search"}
     /\ req.sort_by \in {"created_at", "title", "completed"}
     /\ req.order \in {"asc", "desc"}) =>
       /\ resp.status = 200
       /\ SortedBy(resp.body.tasks, req.sort_by, req.order)
       /\ Elems(resp.body.tasks) = C6_Matching
       /\ Len(resp.body.tasks) = Cardinality(C6_Matching)
       /\ resp.body.count = Len(resp.body.tasks)
       /\ tasks = pre

C6_Witness ==
    /\ req.op = "advanced_search" /\ resp.status = 200
    /\ req.completed = Some(FALSE) /\ req.sort_by = "title" /\ req.order = "desc"
    /\ Len(resp.body.tasks) = 2
    /\ resp.body.tasks[1].title # resp.body.tasks[2].title

\* the least k with k * d >= n
CeilDiv(n, d) == CHOOSE k \in 0..n : k * d >= n /\ \A j \in 0..n : j * d >= n => k <= j

(* C7: for page >= 1 and page_size in 1..100 over a store of N rows,
   get_tasks_paginated reports total_items = N, total_pages = ceil(N / page_size),
   has_next iff page < total_pages and has_previous iff page > 1; with N = 23,
   page_size = 10 and page = 3 that is total_pages = 3, has_next false,
   has_previous true, and the page holds 3 rows. *)
C7_PaginationMeta ==
    (/\ req.op = "get_tasks_paginated"
     /\ req.page >= 1 /\ req.page_size >= 1 /\ req.page_size <= 100
     /\ req.sort_by \in {"created_at", "title", "completed"}
     /\ req.order \in {"asc", "desc"}) =>
       LET N == Cardinality(DOMAIN pre)
           p == resp.body.pagination
       IN  /\ resp.status = 200
           /\ p.current_page = req.page /\ p.page_size = req.page_size
           /\ p.total_items = N
           /\ p.total_pages = CeilDiv(N, req.page_size)
           /\ p.has_next = (req.page < p.total_pages)
           /\ p.has_previous = (req.page > 1)
           /\ (N = 23 /\ req.page_size = 10 /\ req.page = 3) =>
                 /\ p.total_pages = 3 /\ ~ p.has_next /\ p.has_previous
                 /\ Len(resp.body.tasks) = 3

C7_Witness ==
    /\ req.op = "get_tasks_paginated" /\ resp.status = 200
    /\ Cardinality(DOMAIN pre) = 23 /\ req.page_size = 10 /\ req.page = 3
    /\ resp.body.pagination.total_pages = 3

\* the walk has read pages 1..total_pages
WalkDone == walk # NoWalk /\ Len(walk.pages) >= walk.total_pages

(* C8: for one snapshot and fixed sort_by, order and page_size, the lists of
   pages 1..total_pages are pairwise disjoint, each holds at most page_size
   rows, only the last may be shorter, and together they hold every stored
   row exactly once. *)
C8_PagesPartition ==
    WalkDone =>
       LET P == SubSeq(walk.pages, 1, walk.total_pages)
       IN  /\ \A a, b \in 1..Len(P) :
                a # b => { P[a][k] : k \in 1..Len(P[a]) } \cap
                         { P[b][k] : k \in 1..Len(P[b]) } = {}
           /\ \A a \in 1..Len(P) :
                /\ Len(P[a]) <= walk.page_size
                /\ a < Len(P) => Len(P[a]) = walk.page_size
                /\ Cardinality({ P[a][k] : k \in 1..Len(P[a]) }) = Len(P[a])
           /\ UNION { { P[a][k] : k \in 1..Len(P[a]) } : a \in 1..Len(P) } = DOMAIN tasks

\* the last filter request asks for the completed / for the pending tasks
AsksCompleted(r) == r.op = "filter_tasks" /\ r.status \in {"completed", "COMPLETED"}
AsksPending(r) == r.op = "filter_tasks" /\ r.status \in {"pending", "Pending"}

(* C9: filter_tasks with status completed (pending) answers 200 with exactly
   the completed (pending) rows, each once, and count is the list's length;
   over one snapshot the two results are disjoint and their union is the set
   of stored rows; for the store {1: pending, 2: completed} the completed
   filter returns exactly row 2 with count 1. *)
C9_FilterPartitions ==
    /\ (AsksCompleted(req) \/ AsksPending(req)) =>
          /\ resp.status = 200
          /\ Elems(resp.body.tasks) =
                { r \in AllRows(pre) : r.completed = AsksCompleted(req) }
          /\ Cardinality(Elems(resp.body.tasks)) = Len(resp.body.tasks)
          /\ resp.body.count = Len(resp.body.tasks)
          /\ tasks = pre
    /\ (/\ AsksCompleted(prev.req) /\ prev.resp.status = 200
        /\ AsksPending(req) /\ resp.status = 200) =>
          /\ Elems(prev.resp.body.tasks) \cap Elems(resp.body.tasks) = {}
          /\ Elems(prev.resp.body.tasks) \cup Elems(resp.body.tasks) = AllRows(tasks)
    /\ (/\ AsksCompleted(req) /\ DOMAIN pre = {1, 2}
        /\ ~ pre[1].completed /\ pre[2].completed) =>
          /\ Ids(resp.body.tasks) = << 2 >>
          /\ resp.body.count = 1

C9_Witness ==
    /\ AsksCompleted(prev.req) /\ prev.resp.status = 200
    /\ AsksPending(req) /\ resp.status = 200
    /\ prev.resp.body.tasks # <<>> /\ resp.body.tasks # <<>>

\* the elements of s at the positions in K, in order (from position k on)
RECURSIVE At(_, _, _)
At(s, K, k) ==
    IF k > Len(s) THEN <<>>
    ELSE (IF k \in K THEN << s[k] >> ELSE <<>>) \o At(s, K, k + 1)

\* row after an update with the request's non-null fields
Updated(row, u) ==
    [id |-> row.id,
     title |-> IF IsNone(u.title) THEN row.title ELSE Val(u.title),
     description |-> IF IsNone(u.description) THEN row.description ELSE u.description,
     completed |-> IF IsNone(u.completed) THEN row.completed ELSE Val(u.completed),
     created_at |-> row.created_at]

(* C10: for a list of 1..100 ids, bulk-delete and bulk-update (with at least
   one field to update) answer 200 whether or not ids are missing: every id
   present at its turn is deleted / updated, every id absent at its turn is
   listed in not_found_ids, and deleted_count (updated_count) + not_found_count
   is the length of the list. *)
C10_BulkReportsNotFound ==
    LET ids == req.task_ids
        listed == { ids[k] : k \in 1..Len(ids) }
        all == 1..Len(ids)
    IN  /\ (req.op = "bulk_delete_tasks" /\ Len(ids) >= 1 /\ Len(ids) <= 100) =>
              LET present == { k \in all : /\ ids[k] \in DOMAIN pre
                                           /\ \A j \in 1..(k - 1) : ids[j] # ids[k] }
              IN  /\ resp.status = 200
                  /\ resp.body.deleted_ids = At(ids, present, 1)
                  /\ resp.body.not_found_ids = At(ids, all \ present, 1)
                  /\ resp.body.deleted_count = Len(resp.body.deleted_ids)
                  /\ resp.body.not_found_count = Len(resp.body.not_found_ids)
                  /\ resp.body.deleted_count + resp.body.not_found_count = Len(ids)
                  /\ tasks = [i \in DOMAIN pre \ listed |-> pre[i]]
        /\ (/\ req.op = "bulk_update_tasks" /\ Len(ids) >= 1 /\ Len(ids) <= 100
            /\ \E c \in {"title", "description", "completed"} :
                  ~ IsNone(req.update_data[c])) =>
              LET present == { k \in all : ids[k] \in DOMAIN pre }
              IN  /\ resp.status = 200
                  /\ Ids(resp.body.updated_tasks) = At(ids, present, 1)
                  /\ \A k \in 1..Len(resp.body.updated_tasks) :
                        resp.body.updated_tasks[k] =
                           Updated(pre[resp.body.updated_tasks[k].id], req.update_data)
                  /\ resp.body.not_found_ids = At(ids, all \ present, 1)
                  /\ resp.body.updated_count = Len(resp.body.updated_tasks)
                  /\ resp.body.not_found_count = Len(resp.body.not_found_ids)
                  /\ resp.body.updated_count + resp.body.not_found_count = Len(ids)
                  /\ tasks = [i \in DOMAIN pre |->
                                IF i \in listed THEN Updated(pre[i], req.update_data)
                                ELSE pre[i]]

C10_Witness ==
    /\ req.op = "bulk_delete_tasks" /\ resp.status = 200
    /\ Len(req.task_ids) = 2
    /\ resp.body.deleted_count = 1 /\ resp.body.not_found_count = 1
    /\ tasks # <<>>

(* C11: every stored task carries the id and the created_at the store gave it
   when it was inserted, and ids are unique: a step of any operation (create,
   batch create, copy, merge, update, bulk update, toggle, mark-all,
   reverse-all, auto-complete-old) leaves id and created_at of the rows it
   keeps as they were, and a row it inserts has a serial not used before as
   its id and the store's clock as its created_at. *)
C11_StoreAssignsIdentity ==
    [][ /\ \A i \in DOMAIN tasks' : tasks'[i].id = i
        /\ \A i, j \in DOMAIN tasks' : i # j => tasks'[i].id # tasks'[j].id
        /\ \A i \in DOMAIN tasks' \cap DOMAIN tasks :
              /\ tasks'[i].id = tasks[i].id
              /\ tasks'[i].created_at = tasks[i].created_at
        /\ \A i \in DOMAIN tasks' \ DOMAIN tasks :
              /\ id_seq <= i /\ i < id_seq'
              /\ tasks'[i].created_at = now ]_vars

\* a task has been copied twice: two rows were inserted in one statement
C11_Witness ==
    /\ req.op = "copy_task"
    /\ resp.status = 201
    /\ Cardinality(DOMAIN tasks \ DOMAIN pre) = 2
    /\ \A i \in DOMAIN tasks \ DOMAIN pre : tasks[i].created_at = now

(* C12: a delete-all request whose confirm flag is false or left out issues
   no store call, is answered with a client error and leaves the store as it
   was; a delete-all request that removed a task had confirm true. *)
C12_DeleteAllNeedsConfirm ==
    req.op = "delete_all_tasks" =>
       /\ req.confirm # Some(TRUE) =>
             /\ resp.status \in 400..499
             /\ resp.calls = 0
             /\ tasks = pre
       /\ tasks # pre => req.confirm = Some(TRUE)

\* delete-all without the confirm parameter on a store that holds tasks
C12_Witness ==
    /\ req.op = "delete_all_tasks"
    /\ IsNone(req.confirm)
    /\ DOMAIN pre # {}
    /\ resp.status = 400
    /\ tasks = pre

\* the ids a request refers to, and those of them that t does not hold
RefIds(r) ==
    IF r.op \in {"compare_tasks", "merge_tasks"}
    THEN <<r.task_id_1, r.task_id_2>>
    ELSE <<r.task_id>>

Missing(r, t) == SelectSeq(RefIds(r), LAMBDA i : i \notin DOMAIN t)

ByIdOps ==
    {"get_task", "update_task", "toggle_task_completion", "copy_task",
     "compare_tasks", "merge_tasks"}

(* C14 as stated: for get, update, toggle, copy, compare and merge, a
   referenced id that the store does not hold yields a 404 response naming
   the id and leaves the store as it was. *)
C14_AbsentIdIsNotFound ==
    (req.op \in ByIdOps /\ Missing(req, pre) # <<>>) =>
       /\ resp.status = 404
       /\ resp.body.detail[2] = Head(Missing(req, pre))
       /\ tasks = pre

(* C14: for get, update, toggle, compare and merge, and for copy with times
   within 1..10, a referenced id that the store does not hold yields a 404
   response naming the (first such) id and leaves the store as it was: merge
   inserts no task and deletes none. *)
C14_AbsentIdIsNotFoundOnceValidated ==
    (/\ req.op \in ByIdOps
     /\ Missing(req, pre) # <<>>
     /\ req.op = "copy_task" => req.times \in 1..10) =>
       /\ resp.status = 404
       /\ resp.body.detail[2] = Head(Missing(req, pre))
       /\ tasks = pre

\* a merge with delete_originals whose second source is missing, the first present
C14_Witness ==
    /\ req.op = "merge_tasks"
    /\ req.delete_originals
    /\ req.task_id_1 \in DOMAIN pre
    /\ req.task_id_2 \notin DOMAIN pre
    /\ resp.status = 404
    /\ resp.body.detail[2] = req.task_id_2
    /\ tasks = pre

(* C15: an update request whose title, description and completed are all
   null is rejected with a client error before any store call, whether the
   id exists or not. *)
C15_EmptyUpdateRejectedFirst ==
    (/\ req.op = "update_task"
     /\ IsNone(req.task.title)
     /\ IsNone(req.task.description)
     /\ IsNone(req.task.completed)) =>
       /\ resp.status = 400
       /\ resp.calls = 0

\* the request's parameter is outside the range the operation accepts
OutOfRange(r) ==
    \/ /\ r.op \in {"get_recent_tasks", "get_oldest_tasks",
                    "get_tasks_with_longest_titles", "get_activity_timeline"}
       /\ r.limit < 1 \/ r.limit > 100
    \/ /\ r.op = "get_tasks_paginated"
       /\ r.page < 1 \/ r.page_size < 1 \/ r.page_size > 100
    \/ /\ r.op = "auto_complete_old_tasks"
       /\ r.days_old < 1 \/ r.days_old > 365
    \/ /\ r.op = "copy_task"
       /\ r.times < 1 \/ r.times > 10

(* C16: a limit outside 1..100 (recent, oldest, longest-titles,
   activity-timeline), a page below 1 or a page_size outside 1..100
   (paginated), a days_old outside 1..365 (auto-complete-old) and a times
   outside 1..10 (copy) are rejected with a client error before any store
   call, and the store stays as it was. *)
C16_OutOfRangeRejectedFirst ==
    OutOfRange(req) =>
       /\ resp.status \in 400..499
       /\ resp.calls = 0
       /\ tasks = pre

\* auto-complete-old with days_old = 0 on a store holding a pending task
C16_Witness ==
    /\ req.op = "auto_complete_old_tasks"
    /\ req.days_old = 0
    /\ \E i \in DOMAIN pre : ~ pre[i].completed
    /\ resp.status = 400
    /\ resp.calls = 0

(* C17: batch-create with an empty task list, and bulk-delete or bulk-update
   with an empty id list, are rejected with a client error without any store
   call and without a change of the store. *)
C17_EmptyListsRejected ==
    (\/ req.op = "create_tasks_batch" /\ req.tasks = <<>>
     \/ req.op \in {"bulk_delete_tasks", "bulk_update_tasks"} /\ req.task_ids = <<>>) =>
       /\ resp.status \in 400..499
       /\ resp.calls = 0
       /\ tasks = pre

\* an empty batch sent to a store that holds tasks
C17_Witness ==
    /\ req.op = "create_tasks_batch"
    /\ req.tasks = <<>>
    /\ DOMAIN pre # {}
    /\ resp.status = 400
    /\ resp.calls = 0

\* the count a finished reverse-all, auto-complete-old or delete-all reports
ReportedCount ==
    IF req.op = "reverse_all_task_status" THEN resp.body.reversed_count
    ELSE IF req.op = "auto_complete_old_tasks" THEN resp.body.updated_count
    ELSE resp.body.deleted_count

(* C13: when reverse-all, auto-complete-old or delete-all answers with
   success, the count it reports (reversed_count, updated_count,
   deleted_count) is the number of stored tasks its writes changed or
   removed, also when other clients' requests are handled while it runs. *)
C13_CountsMatchChanges ==
    (run # NoRun /\ run.pc = "done" /\ resp.status = 200) =>
       ReportedCount = run.changed

(* C18: a request one of whose store calls fails issues no store call after
   the failing one and is answered 500 with the failure text in its detail;
   what it wrote before the failure stays written (a merge whose delete
   fails keeps the merged task); and a request that did not get as far as
   the failing call is answered 500 only for an exception of its own
   computation, never for a 400 or 404 it raised. *)
C18_FailureIsServerError ==
    (req.op # "none") =>
       /\ resp.calls <= req.fail
       /\ resp.calls = req.fail =>
             /\ resp.status = 500
             /\ resp.body.detail[2] = BackendError
       /\ (resp.status = 500 /\ resp.calls < req.fail) =>
             resp.body.detail[2] \in {AttributeError, TypeError}
       /\ (req.op = "merge_tasks" /\ resp.calls = req.fail /\ req.fail = 4) =>
             DOMAIN tasks = DOMAIN pre \cup {id_seq - 1}
       /\ (req.op = "merge_tasks" /\ resp.calls = req.fail /\ req.fail = 5) =>
             DOMAIN tasks = (DOMAIN pre \ {req.args.task_id_1}) \cup {id_seq - 1}
       /\ (req.op = "bulk_delete_tasks" /\ resp.calls = req.fail /\ req.fail = 3) =>
             DOMAIN tasks = DOMAIN pre \ {req.args.task_ids[1]}

\* a merge with delete_originals whose second delete fails
C18_Witness ==
    /\ req.op = "merge_tasks"
    /\ req.args.task_id_1 # req.args.task_id_2
    /\ req.fail = 5
    /\ resp.calls = 5
    /\ resp.status = 500
    /\ id_seq - 1 \in DOMAIN tasks
    /\ req.args.task_id_2 \in DOMAIN tasks

\* the counts of the store the score was computed from
ScoreTotal == Cardinality(DOMAIN pre)
ScoreCompleted == Cardinality({ i \in DOMAIN pre : pre[i].completed })
ScoreDescribed ==
    Cardinality({ i \in DOMAIN pre :
                    /\ pre[i].description # None
                    /\ \E k \in 1..Len(pre[i].description[1]) :
                          pre[i].description[1][k] # " " })

\* x tenths is a tenth nearest to num / den
NearestTenth(x, num, den) == 2 * Abs(x * den - 10 * num) <= den

(* C19: for a store of t > 0 tasks, c of them completed and d with a
   description that is not blank, productivity-score returns, each rounded
   to one decimal, completion = 40*c/t, description = 30*d/t,
   volume = min(30*t/50, 30) and as score their sum, which lies in [0, 100];
   t = 10, c = 5, d = 5 gives 20.0, 15.0, 6.0, score 41.0 and grade F. *)
C19_ScoreArithmetic ==
    (req.op = "calculate_productivity_score" /\ ScoreTotal > 0) =>
       LET t == ScoreTotal
           c == ScoreCompleted
           d == ScoreDescribed
           volume == IF 30 * t <= 30 * 50 THEN 30 * t ELSE 30 * 50
       IN  /\ resp.status = 200
           /\ NearestTenth(resp.body.breakdown.completion, 40 * c, t)
           /\ NearestTenth(resp.body.breakdown.description_quality, 30 * d, t)
           /\ NearestTenth(resp.body.breakdown.task_volume, volume, 50)
           /\ NearestTenth(resp.body.score, 50 * 40 * c + 50 * 30 * d + t * volume, 50 * t)
           /\ resp.body.score >= 0 /\ resp.body.score <= 1000
           /\ (t = 10 /\ c = 5 /\ d = 5) =>
                 /\ resp.body.breakdown.completion = 200
                 /\ resp.body.breakdown.description_quality = 150
                 /\ resp.body.breakdown.task_volume = 60
                 /\ resp.body.score = 410
                 /\ resp.body.grade = "F"

\* the score of 10 tasks, 5 completed and 5 described
C19_Witness ==
    /\ req.op = "calculate_productivity_score"
    /\ ScoreTotal = 10 /\ ScoreCompleted = 5 /\ ScoreDescribed = 5
    /\ resp.body.score = 410
    /\ resp.body.grade = "F"

\* the letter the thresholds give to a score in tenths
Letter(score) ==
    IF score >= 900 THEN "A+"
    ELSE IF score >= 800 THEN "A"
    ELSE IF score >= 700 THEN "B"
    ELSE IF score >= 600 THEN "C"
    ELSE IF score >= 500 THEN "D"
    ELSE "F"

(* C20: for a store that is not empty, the grade productivity-score returns
   is the letter the thresholds (>= 90 A+, >= 80 A, >= 70 B, >= 60 C, >= 50 D,
   otherwise F) give to the score returned in the same response. *)
C20_GradeMatchesScore ==
    (req.op = "calculate_productivity_score" /\ ScoreTotal > 0) =>
       resp.body.grade = Letter(resp.body.score)


\* the catalogue entry written with the parameter names of the declarations
Declared(path) ==
    [k \in 1..Len(path) |->
        CASE path[k] = "{id}" -> "{task_id}"
          [] path[k] = "{id1}" -> "{task_id_1}"
          [] path[k] = "{id2}" -> "{task_id_2}"
          [] OTHER -> path[k]]

\* the operation a catalogue entry names: the handler declared under the
\* entry's method and path
Operation(entry) ==
    routes[CHOOSE k \in DOMAIN routes :
              routes[k].method = entry[1] /\ routes[k].path = Declared(entry[2])].endpoint

\* the request asks for the catalogue entry: the entry's method, and the
\* entry's path with an id in place of each id and a status in place of {status}
Asks(r, entry) ==
    /\ r.op = "request"
    /\ r.method = entry[1]
    /\ Len(r.path) = Len(entry[2])
    /\ \A k \in 1..Len(r.path) :
          LET s == Declared(entry[2])[k]
          IN  CASE s \in IntParams -> IsInt(r.path[k])
                [] s = "{status}" -> r.path[k] = "completed"
                [] OTHER -> r.path[k] = s

(* C21: every request for a method and path of the root catalogue is
   dispatched to the operation the catalogue names for it; a request for a
   literal path is not taken by the earlier GET or DELETE /tasks/{task_id}. *)
C21_CatalogueDispatch ==
    \A entry \in endpoints :
       Asks(req, entry) => run # NoRun /\ run.op = Operation(entry)

\* the clients whose request is answered, and those among them that sent op
Answered == { c \in Clients : run[c].op # "none" /\ run[c].pc = "done" }
AnsweredOp(op) == { c \in Answered : run[c].op = op }

(* C22: when the only requests are n toggles of one existing task and all
   of them return success, the task's completed flag ends at its original
   value for even n and at its negation for odd n, whatever the order of the
   requests' reads and writes. *)
C22_NoToggleLost ==
    \A task_id \in DOMAIN pre :
       LET toggles == { c \in AnsweredOp("toggle_task_completion") :
                           run[c].req.task_id = task_id }
       IN  ( /\ \A c \in Clients : run[c] = NoRun \/ c \in toggles
             /\ \A c \in toggles : run[c].resp.status = 200 )
           => tasks[task_id].completed =
                 IF Cardinality(toggles) % 2 = 0 THEN pre[task_id].completed
                                                 ELSE ~ pre[task_id].completed

(* C23: of the delete requests for one id that run at the same time, at
   most one returns the success response with the deleted task; the others
   return not-found. *)
C23_OneDeleteSucceeds ==
    \A task_id \in ReqIds :
       LET deletes == { c \in AnsweredOp("delete_task") : run[c].req.task_id = task_id }
       IN  /\ Cardinality({ c \in deletes : run[c].resp.status = 200 }) <= 1
           /\ \A c \in deletes : run[c].resp.status \in {200, 404}

(* C24: with no store call failing, an update or a toggle ends in success or
   not-found and never in a server error, also when another request deletes
   its task between its existence check and its write. *)
C24_NoServerErrorOnRace ==
    \A c \in AnsweredOp("update_task") \cup AnsweredOp("toggle_task_completion") :
       run[c].resp.status \in {200, 404}

(* C25: an update that returns success sets the fields of title,
   description and completed that the request supplies non-null to the
   supplied values, and leaves the task's other fields and every other task
   as they were. *)
C25_UpdateSetsSuppliedFields ==
    (req.op = "update_task" /\ resp.status = 200) =>
       /\ DOMAIN tasks = DOMAIN pre
       /\ req.task_id \in DOMAIN pre
       /\ tasks[req.task_id] = Updated(pre[req.task_id], req.task)
       /\ Others(tasks, req.task_id) = Others(pre, req.task_id)

\* a partial update: the title is replaced, the completed flag (true) and the
\* description (null, not supplied) stay, next to another task
C25_Witness ==
    /\ req.op = "update_task"
    /\ resp.status = 200
    /\ ~ IsNone(req.task.title)
    /\ IsNone(req.task.completed)
    /\ IsNone(req.task.description)
    /\ pre[req.task_id].title # Val(req.task.title)
    /\ pre[req.task_id].completed
    /\ tasks[req.task_id].completed
    /\ tasks[req.task_id].title = Val(req.task.title)
    /\ Cardinality(DOMAIN tasks) > 1

(* C26: in the response to a bulk-delete, no id is listed both in
   deleted_ids and in not_found_ids, also when the request lists an id more
   than once. *)
C26_DeletedAndNotFoundDisjoint ==
    (req.op = "bulk_delete_tasks" /\ resp.status = 200) =>
       Elems(resp.body.deleted_ids) \cap Elems(resp.body.not_found_ids) = {}

\* the row with its completed flag negated
Reversed(row) == [row EXCEPT !.completed = ~ @]

(* C27: handled with no other request running, reverse-all negates the
   completed flag of every stored task, changes no other field, creates and
   deletes no task and reports reversed_count equal to the number of tasks;
   two reverse-all requests in a row leave every task's status as it was. *)
C27_ReverseAllNegatesEveryTask ==
    (req.op = "reverse_all_task_status") =>
       /\ resp.status = 200
       /\ DOMAIN tasks = DOMAIN pre
       /\ \A i \in DOMAIN pre : tasks[i] = Reversed(pre[i])
       /\ resp.body.reversed_count = Cardinality(DOMAIN pre)
       /\ (prev.req.op = "reverse_all_task_status") => tasks = prev.pre

\* a second reverse-all in a row over two tasks of different status
C27_Witness ==
    /\ req.op = "reverse_all_task_status"
    /\ prev.req.op = "reverse_all_task_status"
    /\ resp.body.reversed_count = 2
    /\ \E i, j \in DOMAIN tasks : tasks[i].completed /\ ~ tasks[j].completed
    /\ pre # tasks
    /\ tasks = prev.pre

\* the pending tasks of the store before the request that are older than the
\* request's cutoff
OldPending ==
    { i \in DOMAIN pre : ~ pre[i].completed /\ pre[i].created_at < now - req.days_old }

(* C28: for days_old within 1..365, auto-complete-old returns success, sets
   completed on exactly the pending tasks created before now minus days_old
   days, leaves every other task and every other field as it was, and reports
   updated_count equal to the number of those tasks. *)
C28_AutoCompleteOldExact ==
    (req.op = "auto_complete_old_tasks" /\ req.days_old \in 1..DaysOldLimit) =>
       /\ resp.status = 200
       /\ DOMAIN tasks = DOMAIN pre
       /\ \A i \in DOMAIN pre :
             tasks[i] = IF i \in OldPending THEN [pre[i] EXCEPT !.completed = TRUE]
                                            ELSE pre[i]
       /\ resp.body.updated_count = Cardinality(OldPending)

(* C29: for two existing tasks, also when a description is null, compare
   returns success with both tasks and the comparison, and never a server
   error while no store call fails. *)
C29_CompareExistingSucceeds ==
    (/\ req.op = "compare_tasks"
     /\ req.task_id_1 \in DOMAIN pre
     /\ req.task_id_2 \in DOMAIN pre) =>
       /\ resp.status = 200
       /\ resp.body.task_1 = pre[req.task_id_1]
       /\ resp.body.task_2 = pre[req.task_id_2]
       /\ "comparison" \in DOMAIN resp.body

(* C30: over a store that is not empty the health check returns a
   health_score within 50..100, since at most one issue and three warnings
   are raised; the health_status is Excellent, Good or Fair and never
   "Needs Attention". *)
C30_HealthScoreAtLeastFair ==
    (req.op = "task_health_check" /\ pre # <<>>) =>
       /\ resp.status = 200
       /\ Len(resp.body.issues) <= 1
       /\ Len(resp.body.warnings) <= 3
       /\ resp.body.health_score = 100 - 20 * Len(resp.body.issues)
                                       - 10 * Len(resp.body.warnings)
       /\ resp.body.health_score \in 50..100
       /\ resp.body.health_status \in {"Excellent", "Good", "Fair"}
       /\ resp.body.health_status = "Fair" <=> resp.body.health_score < 70
       /\ resp.body.health_status = "Excellent" <=> resp.body.health_score >= 90

\* the worst store: no task completed, none described, a short and a long title
C30_Witness ==
    /\ req.op = "task_health_check"
    /\ pre # <<>>
    /\ Len(resp.body.issues) = 1
    /\ Len(resp.body.warnings) = 3
    /\ resp.body.health_score = 50
    /\ resp.body.health_status = "Fair"
====
